---------------------------- MODULE Spec2Model ----------------------------
(***************************************************************************)
(* RAIDA Key Exchange (RKE): the splitter / reconstructor of rke_core.c,   *)
(* the checksum functions of rke_crypto.c, the fragment store of           *)
(* rke_storage.c, the command handlers of rke_protocol.c, the stream       *)
(* transform of aes.h and the encryption-coin handlers of                  *)
(* cmd_key_exechange.c.                                                    *)
(*                                                                         *)
(* Bytes are the integers 0..255.  Buffers are sequences (1-based: C byte  *)
(* i is element i+1).  The 256-byte key / fragment data size of the source *)
(* is scaled to MaxKeySize and the 255 fragment limit to MaxFragments.     *)
(***************************************************************************)
EXTENDS Integers, Sequences, FiniteSets, TLC

(***************************************************************************)
(* Bounds of the model.                                                    *)
(***************************************************************************)
\* stands for RKE_MAX_KEY_SIZE = RKE_FRAGMENT_DATA_SIZE (256 in rke.h)
MaxKeySize == 2
\* stands for RKE_MAX_FRAGMENTS (255 in rke.h): the largest uint8_t value
MaxFragments == 3
\* number of requests / calls in one behaviour
MaxOps == 2

(***************************************************************************)
(* Program constants.                                                      *)
(***************************************************************************)
RKE_MIN_THRESHOLD == 2
RKE_KEY_ID_SIZE == 16
RKE_KEY_TYPE_SYMMETRIC == 1

RKE_SUCCESS == 0
RKE_ERROR_INVALID_PARAM == -1
RKE_ERROR_MEMORY_ALLOC == -2
RKE_ERROR_CRYPTO_FAIL == -3
RKE_ERROR_STORAGE_FAIL == -4
RKE_ERROR_FRAGMENT_CORRUPT == -5
RKE_ERROR_INSUFFICIENT_FRAGMENTS == -6

STATUS_SUCCESS == 0
ERROR_INVALID_PACKET_LENGTH == -1
ERROR_INVALID_SN_OR_DENOMINATION == -2
ERROR_MEMORY_ALLOC == -3
ERROR_INVALID_PARAMETER == -4
ERROR_FILESYSTEM == -5
ERROR_KEY_GENERATION == -11
ERROR_KEY_SPLITTING == -12

(***************************************************************************)
(* Byte arithmetic.                                                        *)
(***************************************************************************)
RECURSIVE XorBits(_, _, _)
XorBits(a, b, n) ==
    IF n = 0 THEN 0
    ELSE (((a % 2) + (b % 2)) % 2) + (2 * XorBits(a \div 2, b \div 2, n - 1))

\* the C operator ^ on two unsigned char values
Xor(a, b) == CHOOSE r \in { XorBits(x, y, 8) : x \in { a }, y \in { b } } : TRUE

\* s1[i] ^ s2[i] over the first n bytes of s1, the rest of s1 kept
XorInto(s1, s2, n) ==
    [i \in 1..Len(s1) |-> IF i <= n THEN Xor(s1[i], s2[i]) ELSE s1[i]]

Zeros(n) == [i \in 1..n |-> 0]

\* memcpy(dst, src, n): the first n bytes of dst replaced
Memcpy(dst, src, n) ==
    [i \in 1..Len(dst) |-> IF i <= n THEN src[i] ELSE dst[i]]


(***************************************************************************)
(* Fragments and their checksums (rke.h, rke_crypto.c).                    *)
(***************************************************************************)
\* 32 zero bytes: a checksum field after memset(.., 0, ..)
ZeroChecksum == <<>>

\* The content hash, taken as collision-free: a digest determines its input
\* (its length and every byte) and is never the all-zero checksum.
simple_sha256(data) == <<Len(data)>> \o data

\* struct rke_fragment_t
Fragment(id, total, thr, size, data, sum) ==
    [fragment_id |-> id, total_fragments |-> total, threshold |-> thr,
     fragment_size |-> size, data |-> data, checksum |-> sum]

\* one element of fragment_storage after memset(fragment_storage, 0, ..)
ZeroFragment == Fragment(0, 0, 0, 0, Zeros(MaxKeySize), ZeroChecksum)

\* a hash input without the data
HashInputHeaderOnly(f) ==
    << f.fragment_id, f.total_fragments, f.threshold,
       (f.fragment_size \div 256) % 256, f.fragment_size % 256 >>

\* the bytes rke_calculate_checksum hashes: five header bytes, then
\* data[0 .. fragment_size)
HashInput(f) ==
    << f.fragment_id, f.total_fragments, f.threshold,
       (f.fragment_size \div 256) % 256, f.fragment_size % 256 >>
    \o SubSeq(f.data, 1, f.fragment_size)

\* rke_calculate_checksum: the fragment with its checksum field set
rke_calculate_checksum(f) ==
    [f EXCEPT !.checksum = simple_sha256(HashInput(f))]

\* rke_verify_checksum without the copy: it clears and recomputes the checksum
\* of the caller's fragment and compares the field with itself
rke_verify_checksum_in_place(f) ==
    [rv |-> RKE_SUCCESS,
     fragment |-> rke_calculate_checksum([f EXCEPT !.checksum = ZeroChecksum])]

\* rke_verify_checksum: its status, and the caller's fragment after the call
\* (the argument is const; the checksum is recomputed on a copy)
rke_verify_checksum_call(f) ==
    LET temp_fragment == rke_calculate_checksum([f EXCEPT !.checksum = ZeroChecksum])
    IN  [rv |-> IF f.checksum # temp_fragment.checksum
                THEN RKE_ERROR_FRAGMENT_CORRUPT
                ELSE RKE_SUCCESS,
         fragment |-> f]

rke_verify_checksum(f) == rke_verify_checksum_call(f).rv

\* a rke_validate_fragment without the threshold check
rke_validate_fragment_no_threshold(f) ==
    IF f.fragment_id = 0 \/ f.fragment_id > f.total_fragments
    THEN RKE_ERROR_INVALID_PARAM
    ELSE IF f.fragment_size > MaxKeySize
    THEN RKE_ERROR_INVALID_PARAM
    ELSE RKE_SUCCESS

\* rke_validate_fragment
rke_validate_fragment(f) ==
    IF f.fragment_id = 0 \/ f.fragment_id > f.total_fragments
    THEN RKE_ERROR_INVALID_PARAM
    ELSE IF f.threshold > f.total_fragments
    THEN RKE_ERROR_INVALID_PARAM
    ELSE IF f.fragment_size > MaxKeySize
    THEN RKE_ERROR_INVALID_PARAM
    ELSE RKE_SUCCESS

(***************************************************************************)
(* Key metadata (rke.h) and the random source (utils.h).                   *)
(***************************************************************************)
\* struct rke_key_metadata_t; null marks a NULL pointer argument
Metadata(kid, type, total, thr, ts, den, sn) ==
    [null |-> FALSE, key_id |-> kid, key_type |-> type, total_fragments |-> total,
     threshold |-> thr, timestamp |-> ts, den |-> den, sn |-> sn]

NullMetadata == [Metadata(<<>>, 0, 0, 0, 0, 0, 0) EXCEPT !.null = TRUE]

\* a key buffer argument; null marks a NULL pointer
KeyBuf(bytes) == [null |-> FALSE, bytes |-> bytes]
NullKey == [null |-> TRUE, bytes |-> <<>>]

\* the byte streams /dev/urandom delivers in the model: stream s has
\* byte i equal to s * i mod 256
RandSeeds == {60, 165}
RandomBytes(len) == { [i \in 1..len |-> (s * i) % 256] : s \in RandSeeds }

\* secure_random_bytes(buffer, length): 0 with the buffer filled, or -1
\* (fopen failed, buffer untouched)
secure_random_bytes(len) ==
    { [ok |-> TRUE, bytes |-> b] : b \in RandomBytes(len) }
    \cup { [ok |-> FALSE, bytes |-> Zeros(len)] }

\* rke_generate_key: the status and the key buffer afterwards
rke_generate_key(key_null, key_size, r) ==
    IF key_null \/ key_size = 0 \/ key_size > MaxKeySize
    THEN [rv |-> RKE_ERROR_INVALID_PARAM, bytes |-> <<>>]
    ELSE IF ~r.ok
    THEN [rv |-> RKE_ERROR_CRYPTO_FAIL, bytes |-> <<>>]
    ELSE [rv |-> RKE_SUCCESS, bytes |-> r.bytes]

(***************************************************************************)
(* Splitter / reconstructor (rke_core.c).  The state is the file-scope     *)
(* fragment_storage array and fragment_count.                              *)
(***************************************************************************)
Slots == 1..MaxFragments

\* fragment_storage after memset(fragment_storage, 0, sizeof(..))
ZeroStorage == [i \in Slots |-> ZeroFragment]

\* SplitLoop with the XOR of the mask into fragment 1 left out
RECURSIVE SplitLoopNoXor(_, _, _, _, _, _, _)
SplitLoopNoXor(st, key, key_size, total, thr, rnd, frag_id) ==
    IF frag_id > total
    THEN [rv |-> RKE_SUCCESS, storage |-> st]
    ELSE
      LET hdr == Fragment(frag_id, total, thr, key_size, Zeros(MaxKeySize),
                          st[frag_id].checksum)
      IN  IF frag_id = 1
          THEN SplitLoopNoXor([st EXCEPT ![1] = [hdr EXCEPT !.data = Memcpy(hdr.data, key, key_size)]],
                              key, key_size, total, thr, rnd, frag_id + 1)
          ELSE IF ~rnd[frag_id].ok
          THEN [rv |-> RKE_ERROR_CRYPTO_FAIL, storage |-> [st EXCEPT ![frag_id] = hdr]]
          ELSE
            LET mask == Memcpy(hdr.data, rnd[frag_id].bytes, key_size)
                st1  == [st EXCEPT ![frag_id] = [hdr EXCEPT !.data = mask]]
            IN  SplitLoopNoXor(st1, key, key_size, total, thr, rnd, frag_id + 1)

\* The first loop of rke_split_key from frag_id on.  rnd[frag_id] is what
\* secure_random_bytes delivers for that fragment.
RECURSIVE SplitLoop(_, _, _, _, _, _, _)
SplitLoop(st, key, key_size, total, thr, rnd, frag_id) ==
    IF frag_id > total
    THEN [rv |-> RKE_SUCCESS, storage |-> st]
    ELSE
      LET hdr == Fragment(frag_id, total, thr, key_size, Zeros(MaxKeySize),
                          st[frag_id].checksum)
      IN  IF frag_id = 1
          THEN SplitLoop([st EXCEPT ![1] = [hdr EXCEPT !.data = Memcpy(hdr.data, key, key_size)]],
                         key, key_size, total, thr, rnd, frag_id + 1)
          ELSE IF ~rnd[frag_id].ok
          THEN [rv |-> RKE_ERROR_CRYPTO_FAIL, storage |-> [st EXCEPT ![frag_id] = hdr]]
          ELSE
            LET mask == Memcpy(hdr.data, rnd[frag_id].bytes, key_size)
                st1  == [st EXCEPT ![frag_id] = [hdr EXCEPT !.data = mask]]
                st2  == [st1 EXCEPT ![1].data = XorInto(st1[1].data, mask, key_size)]
            IN  SplitLoop(st2, key, key_size, total, thr, rnd, frag_id + 1)

\* the second loop of rke_split_key: checksums of fragments 1..total
SplitChecksums(st, total) ==
    [i \in Slots |-> IF i <= total THEN rke_calculate_checksum(st[i]) ELSE st[i]]

\* a rke_split_key that accepts a key of any size above 0
rke_split_key_any_size(key, key_size, meta, rnd, st, cnt) ==
    IF key.null \/ meta.null \/ key_size = 0
    THEN [rv |-> RKE_ERROR_INVALID_PARAM, storage |-> st, count |-> cnt]
    ELSE IF meta.threshold > meta.total_fragments
    THEN [rv |-> RKE_ERROR_INVALID_PARAM, storage |-> st, count |-> cnt]
    ELSE IF meta.threshold < RKE_MIN_THRESHOLD
    THEN [rv |-> RKE_ERROR_INVALID_PARAM, storage |-> st, count |-> cnt]
    ELSE
      LET loop == SplitLoop(ZeroStorage, key.bytes, key_size, meta.total_fragments,
                            meta.threshold, rnd, 1)
      IN  IF loop.rv # RKE_SUCCESS
          THEN [rv |-> loop.rv, storage |-> loop.storage, count |-> 0]
          ELSE [rv |-> RKE_SUCCESS,
                storage |-> SplitChecksums(loop.storage, meta.total_fragments),
                count |-> meta.total_fragments]

\* rke_split_key clearing the fragments before it has looked at the threshold
rke_split_key_clear_first(key, key_size, meta, rnd, st, cnt) ==
    IF key.null \/ meta.null \/ key_size = 0 \/ key_size > MaxKeySize
    THEN [rv |-> RKE_ERROR_INVALID_PARAM, storage |-> st, count |-> cnt]
    ELSE IF meta.threshold > meta.total_fragments
    THEN [rv |-> RKE_ERROR_INVALID_PARAM, storage |-> ZeroStorage, count |-> 0]
    ELSE IF meta.threshold < RKE_MIN_THRESHOLD
    THEN [rv |-> RKE_ERROR_INVALID_PARAM, storage |-> ZeroStorage, count |-> 0]
    ELSE
      LET loop == SplitLoop(ZeroStorage, key.bytes, key_size, meta.total_fragments,
                            meta.threshold, rnd, 1)
      IN  IF loop.rv # RKE_SUCCESS
          THEN [rv |-> loop.rv, storage |-> loop.storage, count |-> 0]
          ELSE [rv |-> RKE_SUCCESS,
                storage |-> SplitChecksums(loop.storage, meta.total_fragments),
                count |-> meta.total_fragments]

\* rke_split_key: status, fragment_storage and fragment_count afterwards
rke_split_key(key, key_size, meta, rnd, st, cnt) ==
    IF key.null \/ meta.null \/ key_size = 0 \/ key_size > MaxKeySize
    THEN [rv |-> RKE_ERROR_INVALID_PARAM, storage |-> st, count |-> cnt]
    ELSE IF meta.threshold > meta.total_fragments
    THEN [rv |-> RKE_ERROR_INVALID_PARAM, storage |-> st, count |-> cnt]
    ELSE IF meta.threshold < RKE_MIN_THRESHOLD
    THEN [rv |-> RKE_ERROR_INVALID_PARAM, storage |-> st, count |-> cnt]
    ELSE
      LET loop == SplitLoop(ZeroStorage, key.bytes, key_size, meta.total_fragments,
                            meta.threshold, rnd, 1)
      IN  IF loop.rv # RKE_SUCCESS
          THEN [rv |-> loop.rv, storage |-> loop.storage, count |-> 0]
          ELSE [rv |-> RKE_SUCCESS,
                storage |-> SplitChecksums(loop.storage, meta.total_fragments),
                count |-> meta.total_fragments]

\* the XOR loop of rke_reconstruct_key over fragments frag_idx .. cnt-1
\* (0-based), i.e. slots frag_idx+1 .. cnt
RECURSIVE XorFragments(_, _, _, _, _)
XorFragments(key, st, key_size, frag_idx, cnt) ==
    IF frag_idx >= cnt THEN key
    ELSE XorFragments(XorInto(key, st[frag_idx + 1].data, key_size),
                      st, key_size, frag_idx + 1, cnt)

\* rke_reconstruct_key reading only the first threshold fragments
rke_reconstruct_key_any_count(key, key_size, meta, st, cnt) ==
    IF key.null \/ meta.null \/ key_size = 0
    THEN [rv |-> RKE_ERROR_INVALID_PARAM, key |-> key]
    ELSE IF \E i \in 0..(meta.threshold - 1) :
                i < cnt /\ rke_verify_checksum(st[i + 1]) # RKE_SUCCESS
    THEN [rv |-> RKE_ERROR_FRAGMENT_CORRUPT, key |-> key]
    ELSE [rv |-> RKE_SUCCESS,
          key |-> KeyBuf(XorFragments(Memcpy(key.bytes, st[1].data, key_size),
                                      st, key_size, 1, cnt))]

rke_reconstruct_key_threshold(key, key_size, meta, st, cnt) ==
    IF key.null \/ meta.null \/ key_size = 0
    THEN [rv |-> RKE_ERROR_INVALID_PARAM, key |-> key]
    ELSE IF cnt < meta.threshold
    THEN [rv |-> RKE_ERROR_INSUFFICIENT_FRAGMENTS, key |-> key]
    ELSE IF \E i \in 0..(meta.threshold - 1) :
                rke_verify_checksum(st[i + 1]) # RKE_SUCCESS
    THEN [rv |-> RKE_ERROR_FRAGMENT_CORRUPT, key |-> key]
    ELSE [rv |-> RKE_SUCCESS,
          key |-> KeyBuf(XorFragments(Memcpy(key.bytes, st[1].data, key_size),
                                      st, key_size, 1, meta.threshold))]

\* rke_reconstruct_key: status and the caller's key buffer afterwards
rke_reconstruct_key(key, key_size, meta, st, cnt) ==
    IF key.null \/ meta.null \/ key_size = 0
    THEN [rv |-> RKE_ERROR_INVALID_PARAM, key |-> key]
    ELSE IF cnt < meta.threshold
    THEN [rv |-> RKE_ERROR_INSUFFICIENT_FRAGMENTS, key |-> key]
    ELSE IF \E i \in 0..(meta.threshold - 1) :
                rke_verify_checksum(st[i + 1]) # RKE_SUCCESS
    THEN [rv |-> RKE_ERROR_FRAGMENT_CORRUPT, key |-> key]
    ELSE [rv |-> RKE_SUCCESS,
          key |-> KeyBuf(XorFragments(Memcpy(key.bytes, st[1].data, key_size),
                                      st, key_size, 1, cnt))]

(***************************************************************************)
(* Fragment store (rke_storage.c).  A path is the sequence of the digits   *)
(* printed into it: eight hex digits of key_id[0..3], then 0 for           *)
(* metadata.bin or 1 and the three decimal digits of %03d for a fragment.  *)
(***************************************************************************)
KeyA == [i \in 1..RKE_KEY_ID_SIZE |-> i - 1]
\* shares its first four bytes, and so its directory, with KeyA
KeyB == [i \in 1..RKE_KEY_ID_SIZE |-> IF i <= 4 THEN i - 1 ELSE 176 + i]
KeyC == [i \in 1..RKE_KEY_ID_SIZE |-> 99 + i]
KeyIds == {KeyA, KeyB, KeyC}

\* "%02x" of one byte
Hex2(b) == << b \div 16, b % 16 >>
\* "%03d" of a uint8_t
Dec3(n) == << n \div 100, (n \div 10) % 10, n % 10 >>

DirPath(key_id) ==
    Hex2(key_id[1]) \o Hex2(key_id[2]) \o Hex2(key_id[3]) \o Hex2(key_id[4])
FragmentPath(key_id, fragment_id) == DirPath(key_id) \o <<1>> \o Dec3(fragment_id)
MetadataPath(key_id) == DirPath(key_id) \o <<0>>

FragIds == 1..MaxFragments
FragPaths == { FragmentPath(k, i) : k \in KeyIds, i \in FragIds }
MetaPaths == { MetadataPath(k) : k \in KeyIds }

\* a path with no file, and a file holding one record
NoFragFile == [exists |-> FALSE, rec |-> ZeroFragment]
NoMetaFile == [exists |-> FALSE, rec |-> NullMetadata]
FileOf(r) == [exists |-> TRUE, rec |-> r]

\* rke_store_fragment: status and the fragment files afterwards
rke_store_fragment(fragment, key_id, ff) ==
    IF rke_validate_fragment(fragment) # RKE_SUCCESS
    THEN [rv |-> RKE_ERROR_INVALID_PARAM, files |-> ff]
    ELSE [rv |-> RKE_SUCCESS,
          files |-> [ff EXCEPT ![FragmentPath(key_id, fragment.fragment_id)] =
                                   FileOf(fragment)]]

\* rke_fragment_exists
rke_fragment_exists(key_id, fragment_id, ff) ==
    IF fragment_id = 0 THEN FALSE
    ELSE ff[FragmentPath(key_id, fragment_id)].exists

\* a rke_load_fragment that does not compare the fragment id it read
rke_load_fragment_any_id(key_id, fragment_id, ff) ==
    IF fragment_id = 0
    THEN [rv |-> RKE_ERROR_INVALID_PARAM, rec |-> ZeroFragment]
    ELSE
      LET f == ff[FragmentPath(key_id, fragment_id)]
      IN  IF ~f.exists
          THEN [rv |-> RKE_ERROR_STORAGE_FAIL, rec |-> ZeroFragment]
          ELSE IF rke_validate_fragment(f.rec) # RKE_SUCCESS
          THEN [rv |-> RKE_ERROR_FRAGMENT_CORRUPT, rec |-> f.rec]
          ELSE [rv |-> RKE_SUCCESS, rec |-> f.rec]

\* rke_load_fragment: status and the record read
rke_load_fragment(key_id, fragment_id, ff) ==
    IF fragment_id = 0
    THEN [rv |-> RKE_ERROR_INVALID_PARAM, rec |-> ZeroFragment]
    ELSE
      LET f == ff[FragmentPath(key_id, fragment_id)]
      IN  IF ~f.exists
          THEN [rv |-> RKE_ERROR_STORAGE_FAIL, rec |-> ZeroFragment]
          ELSE IF rke_validate_fragment(f.rec) # RKE_SUCCESS
          THEN [rv |-> RKE_ERROR_FRAGMENT_CORRUPT, rec |-> f.rec]
          ELSE IF f.rec.fragment_id # fragment_id
          THEN [rv |-> RKE_ERROR_FRAGMENT_CORRUPT, rec |-> f.rec]
          ELSE [rv |-> RKE_SUCCESS, rec |-> f.rec]

\* rke_store_metadata; io_ok = FALSE is a failing mkdir / open
rke_store_metadata(meta, mf, io_ok) ==
    IF meta.null
    THEN [rv |-> RKE_ERROR_INVALID_PARAM, files |-> mf]
    ELSE IF ~io_ok
    THEN [rv |-> RKE_ERROR_STORAGE_FAIL, files |-> mf]
    ELSE [rv |-> RKE_SUCCESS,
          files |-> [mf EXCEPT ![MetadataPath(meta.key_id)] = FileOf(meta)]]

\* a rke_load_metadata that returns whatever record the file holds
rke_load_metadata_any_key(key_id, mf) ==
    LET f == mf[MetadataPath(key_id)]
    IN  IF ~f.exists
        THEN [rv |-> RKE_ERROR_STORAGE_FAIL, rec |-> NullMetadata]
        ELSE [rv |-> RKE_SUCCESS, rec |-> f.rec]

\* rke_load_metadata: status and the record read
rke_load_metadata(key_id, mf) ==
    LET f == mf[MetadataPath(key_id)]
    IN  IF ~f.exists
        THEN [rv |-> RKE_ERROR_STORAGE_FAIL, rec |-> NullMetadata]
        ELSE IF f.rec.key_id # key_id
        THEN [rv |-> RKE_ERROR_FRAGMENT_CORRUPT, rec |-> f.rec]
        ELSE [rv |-> RKE_SUCCESS, rec |-> f.rec]

\* rke_count_fragments with the loop ending one id early
RECURSIVE CountLoopBelowLast(_, _, _, _)
CountLoopBelowLast(count, i, key_id, ff) ==
    IF i >= MaxFragments THEN count
    ELSE CountLoopBelowLast(IF rke_fragment_exists(key_id, i, ff) THEN count + 1 ELSE count,
                            i + 1, key_id, ff)

rke_count_fragments_below_last(key_id, ff) == CountLoopBelowLast(0, 1, key_id, ff)

\* the loop of rke_count_fragments from id i on: for (i = 1; i <= 255; i++),
\* here up to MaxFragments
RECURSIVE CountLoop(_, _, _, _)
CountLoop(count, i, key_id, ff) ==
    IF i > MaxFragments THEN count
    ELSE CountLoop(IF rke_fragment_exists(key_id, i, ff) THEN count + 1 ELSE count,
                   i + 1, key_id, ff)

\* rke_count_fragments
rke_count_fragments(key_id, ff) == CountLoop(0, 1, key_id, ff)

(***************************************************************************)
(* Command handlers (rke_protocol.c).  A handler takes the connection      *)
(* context and returns it as it is when the handler returns.               *)
(***************************************************************************)
\* command_status of a context no handler has run on (the tests' mock)
STATUS_UNSET == -999
\* sizeof(fragment_map) in cmd_rke_query
FRAGMENT_MAP_SIZE == 32
\* sizeof(struct rke_key_metadata_t) as the compiler lays it out
SIZEOF_METADATA == 32
\* sizeof(struct rke_fragment_t) less the data array
SIZEOF_FRAGMENT_HEADER == 38

TestNonce == [i \in 1..16 |-> ((i - 1) * 17) % 256]

\* conn_info_t as create_mock_connection leaves it
ConnInfo(body) ==
    [body |-> body, body_size |-> Len(body), output_null |-> TRUE, output |-> <<>>,
     output_size |-> 0, command_status |-> STATUS_UNSET, nonce |-> TestNonce]

\* an idle context: no request has been handled
NoRequest == ConnInfo(<<>>)

Status(ci, code) == [ci EXCEPT !.command_status = code]

\* a cmd_rke_generate that leaves the lower bound of the threshold to rke_split_key
cmd_rke_generate_no_min(ci, env, st, cnt, mf) ==
    LET payload == ci.body
        same == [ci |-> ci, storage |-> st, count |-> cnt, meta_files |-> mf,
                 key |-> <<>>]
    IN
    IF ci.body_size # 21
    THEN [same EXCEPT !.ci = Status(ci, ERROR_INVALID_PACKET_LENGTH)]
    ELSE
      LET metadata == Metadata(SubSeq(payload, 1, RKE_KEY_ID_SIZE), payload[17],
                               payload[18], payload[19], env.now, 0, 0)
      IN
      IF metadata.threshold > metadata.total_fragments
      THEN [same EXCEPT !.ci = Status(ci, ERROR_INVALID_PARAMETER)]
      ELSE IF metadata.total_fragments = 0
      THEN [same EXCEPT !.ci = Status(ci, ERROR_INVALID_PARAMETER)]
      ELSE
        LET gen == rke_generate_key(FALSE, MaxKeySize, env.key_rnd)
        IN
        IF gen.rv # RKE_SUCCESS
        THEN [same EXCEPT !.ci = Status(ci, ERROR_KEY_GENERATION)]
        ELSE
          LET split == rke_split_key(KeyBuf(gen.bytes), MaxKeySize, metadata,
                                     env.rnd, st, cnt)
              after == [same EXCEPT !.storage = split.storage, !.count = split.count,
                                    !.key = gen.bytes]
          IN
          IF split.rv # RKE_SUCCESS
          THEN [after EXCEPT !.ci = Status(ci, ERROR_KEY_SPLITTING)]
          ELSE
            LET stored == rke_store_metadata(metadata, mf, env.io_ok)
            IN
            IF stored.rv # RKE_SUCCESS
            THEN [after EXCEPT !.ci = Status(ci, ERROR_FILESYSTEM)]
            ELSE IF ~env.malloc_ok
            THEN [after EXCEPT !.meta_files = stored.files,
                               !.ci = [ci EXCEPT !.output_size = 1,
                                                 !.command_status = ERROR_MEMORY_ALLOC]]
            ELSE [after EXCEPT !.meta_files = stored.files,
                               !.ci = [ci EXCEPT !.output_size = 1,
                                                 !.output_null = FALSE,
                                                 !.output = <<1>>,
                                                 !.command_status = STATUS_SUCCESS]]

\* cmd_rke_generate.  env: key_rnd, the random bytes for the key; rnd, those of
\* the masks; now, time(NULL); io_ok and malloc_ok, whether the metadata write
\* and malloc succeed.
cmd_rke_generate(ci, env, st, cnt, mf) ==
    LET payload == ci.body
        same == [ci |-> ci, storage |-> st, count |-> cnt, meta_files |-> mf,
                 key |-> <<>>]
    IN
    IF ci.body_size # 21
    THEN [same EXCEPT !.ci = Status(ci, ERROR_INVALID_PACKET_LENGTH)]
    ELSE
      LET metadata == Metadata(SubSeq(payload, 1, RKE_KEY_ID_SIZE), payload[17],
                               payload[18], payload[19], env.now, 0, 0)
      IN
      IF metadata.threshold > metadata.total_fragments
      THEN [same EXCEPT !.ci = Status(ci, ERROR_INVALID_PARAMETER)]
      ELSE IF metadata.total_fragments = 0
      THEN [same EXCEPT !.ci = Status(ci, ERROR_INVALID_PARAMETER)]
      ELSE IF metadata.threshold < RKE_MIN_THRESHOLD
      THEN [same EXCEPT !.ci = Status(ci, ERROR_INVALID_PARAMETER)]
      ELSE
        LET gen == rke_generate_key(FALSE, MaxKeySize, env.key_rnd)
        IN
        IF gen.rv # RKE_SUCCESS
        THEN [same EXCEPT !.ci = Status(ci, ERROR_KEY_GENERATION)]
        ELSE
          LET split == rke_split_key(KeyBuf(gen.bytes), MaxKeySize, metadata,
                                     env.rnd, st, cnt)
              after == [same EXCEPT !.storage = split.storage, !.count = split.count,
                                    !.key = gen.bytes]
          IN
          IF split.rv # RKE_SUCCESS
          THEN [after EXCEPT !.ci = Status(ci, ERROR_KEY_SPLITTING)]
          ELSE
            LET stored == rke_store_metadata(metadata, mf, env.io_ok)
            IN
            IF stored.rv # RKE_SUCCESS
            THEN [after EXCEPT !.ci = Status(ci, ERROR_FILESYSTEM)]
            ELSE IF ~env.malloc_ok
            THEN [after EXCEPT !.meta_files = stored.files,
                               !.ci = [ci EXCEPT !.output_size = 1,
                                                 !.command_status = ERROR_MEMORY_ALLOC]]
            ELSE [after EXCEPT !.meta_files = stored.files,
                               !.ci = [ci EXCEPT !.output_size = 1,
                                                 !.output_null = FALSE,
                                                 !.output = <<1>>,
                                                 !.command_status = STATUS_SUCCESS]]

\* a cmd_rke_exchange that takes 18 bytes for enough
cmd_rke_exchange_min18(ci, malloc_ok, ff) ==
    LET payload == ci.body IN
    IF ci.body_size < 18
    THEN Status(ci, ERROR_INVALID_PACKET_LENGTH)
    ELSE
      LET key_id == SubSeq(payload, 1, RKE_KEY_ID_SIZE)
          fragment_id == payload[RKE_KEY_ID_SIZE + 1]
      IN
      IF rke_fragment_exists(key_id, fragment_id, ff)
      THEN
        LET loaded == rke_load_fragment(key_id, fragment_id, ff) IN
        IF loaded.rv # RKE_SUCCESS
        THEN Status(ci, ERROR_FILESYSTEM)
        ELSE IF ~malloc_ok
        THEN [ci EXCEPT !.output_size = SIZEOF_FRAGMENT_HEADER + MaxKeySize,
                        !.command_status = ERROR_MEMORY_ALLOC]
        ELSE [ci EXCEPT !.output_size = SIZEOF_FRAGMENT_HEADER + MaxKeySize,
                        !.output_null = FALSE,
                        !.output = << loaded.rec >>,
                        !.command_status = STATUS_SUCCESS]
      ELSE Status(ci, ERROR_INVALID_PARAMETER)

\* cmd_rke_exchange; the output is the fragment record read from the store
cmd_rke_exchange(ci, malloc_ok, ff) ==
    LET payload == ci.body IN
    IF ci.body_size < 19
    THEN Status(ci, ERROR_INVALID_PACKET_LENGTH)
    ELSE
      LET key_id == SubSeq(payload, 1, RKE_KEY_ID_SIZE)
          fragment_id == payload[RKE_KEY_ID_SIZE + 1]
      IN
      IF rke_fragment_exists(key_id, fragment_id, ff)
      THEN
        LET loaded == rke_load_fragment(key_id, fragment_id, ff) IN
        IF loaded.rv # RKE_SUCCESS
        THEN Status(ci, ERROR_FILESYSTEM)
        ELSE IF ~malloc_ok
        THEN [ci EXCEPT !.output_size = SIZEOF_FRAGMENT_HEADER + MaxKeySize,
                        !.command_status = ERROR_MEMORY_ALLOC]
        ELSE [ci EXCEPT !.output_size = SIZEOF_FRAGMENT_HEADER + MaxKeySize,
                        !.output_null = FALSE,
                        !.output = << loaded.rec >>,
                        !.command_status = STATUS_SUCCESS]
      ELSE Status(ci, ERROR_INVALID_PARAMETER)

\* cmd_rke_reconstruct.  The fragments are loaded from the store and dropped;
\* the key comes from rke_reconstruct_key, i.e. from fragment_storage.
cmd_rke_reconstruct(ci, malloc_ok, st, cnt, ff, mf) ==
    LET payload == ci.body IN
    IF ci.body_size # 18
    THEN Status(ci, ERROR_INVALID_PACKET_LENGTH)
    ELSE
      LET key_id == SubSeq(payload, 1, RKE_KEY_ID_SIZE)
          md == rke_load_metadata(key_id, mf)
      IN
      IF md.rv # RKE_SUCCESS
      THEN Status(ci, ERROR_FILESYSTEM)
      ELSE IF rke_count_fragments(key_id, ff) < md.rec.threshold
      THEN Status(ci, ERROR_INVALID_PARAMETER)
      ELSE IF \E i \in 1..md.rec.threshold :
                  /\ rke_fragment_exists(key_id, i, ff)
                  /\ rke_load_fragment(key_id, i, ff).rv # RKE_SUCCESS
      THEN Status(ci, ERROR_FILESYSTEM)
      ELSE
        LET rec == rke_reconstruct_key(KeyBuf(Zeros(MaxKeySize)), MaxKeySize,
                                       md.rec, st, cnt)
        IN
        IF rec.rv # RKE_SUCCESS
        THEN Status(ci, ERROR_KEY_GENERATION)
        ELSE IF ~malloc_ok
        THEN [ci EXCEPT !.output_size = MaxKeySize,
                        !.command_status = ERROR_MEMORY_ALLOC]
        ELSE [ci EXCEPT !.output_size = MaxKeySize,
                        !.output_null = FALSE,
                        !.output = rec.key.bytes,
                        !.command_status = STATUS_SUCCESS]

\* (1 << bit_index) and fragment_map[byte_index] |= (1 << bit_index)
RECURSIVE Pow2(_)
Pow2(n) == IF n = 0 THEN 1 ELSE 2 * Pow2(n - 1)
BitIsSet(byte, bit_index) == (byte \div Pow2(bit_index)) % 2 = 1
OrBit(byte, bit_index) ==
    IF BitIsSet(byte, bit_index) THEN byte ELSE byte + Pow2(bit_index)

\* the loop of cmd_rke_query over fragment ids i .. total
RECURSIVE QueryLoop(_, _, _, _, _)
QueryLoop(fragment_map, i, total, key_id, ff) ==
    IF i > total THEN fragment_map
    ELSE IF rke_fragment_exists(key_id, i, ff)
    THEN LET byte_index == (i - 1) \div 8
             bit_index  == (i - 1) % 8
         IN  QueryLoop([fragment_map EXCEPT ![byte_index + 1] = OrBit(@, bit_index)],
                       i + 1, total, key_id, ff)
    ELSE QueryLoop(fragment_map, i + 1, total, key_id, ff)

\* a cmd_rke_query that answers with the metadata record only
cmd_rke_query_metadata_only(ci, malloc_ok, ff, mf) ==
    LET payload == ci.body IN
    IF ci.body_size # 18
    THEN Status(ci, ERROR_INVALID_PACKET_LENGTH)
    ELSE
      LET key_id == SubSeq(payload, 1, RKE_KEY_ID_SIZE)
          md == rke_load_metadata(key_id, mf)
      IN
      IF md.rv # RKE_SUCCESS
      THEN Status(ci, ERROR_FILESYSTEM)
      ELSE IF ~malloc_ok
      THEN [ci EXCEPT !.output_size = SIZEOF_METADATA,
                      !.command_status = ERROR_MEMORY_ALLOC]
      ELSE [ci EXCEPT !.output_size = SIZEOF_METADATA,
                      !.output_null = FALSE,
                      !.output = << md.rec >>,
                      !.command_status = STATUS_SUCCESS]

\* cmd_rke_query; the output is the metadata record, then the 32 bitmap bytes
cmd_rke_query(ci, malloc_ok, ff, mf) ==
    LET payload == ci.body IN
    IF ci.body_size # 18
    THEN Status(ci, ERROR_INVALID_PACKET_LENGTH)
    ELSE
      LET key_id == SubSeq(payload, 1, RKE_KEY_ID_SIZE)
          md == rke_load_metadata(key_id, mf)
      IN
      IF md.rv # RKE_SUCCESS
      THEN Status(ci, ERROR_FILESYSTEM)
      ELSE
        LET fragment_map == QueryLoop(Zeros(FRAGMENT_MAP_SIZE), 1,
                                      md.rec.total_fragments, key_id, ff)
        IN
        IF ~malloc_ok
        THEN [ci EXCEPT !.output_size = SIZEOF_METADATA + FRAGMENT_MAP_SIZE,
                        !.command_status = ERROR_MEMORY_ALLOC]
        ELSE [ci EXCEPT !.output_size = SIZEOF_METADATA + FRAGMENT_MAP_SIZE,
                        !.output_null = FALSE,
                        !.output = << md.rec >> \o fragment_map,
                        !.command_status = STATUS_SUCCESS]

(***************************************************************************)
(* State.                                                                  *)
(***************************************************************************)
\* Authenticity pages.  A page holds RECORDS_PER_PAGE records of 17 bytes: the
\* 16-byte authenticity secret of a coin, then its modification stamp.
RECORDS_PER_PAGE == 2
MaxPages == 2
\* denominations (int8_t) that have pages
CoinDens == { 1, -56 }
PageKeys == { << d, n >> : d \in CoinDens, n \in 0..(MaxPages - 1) }
PageData(n) == [j \in 1..(17 * RECORDS_PER_PAGE) |-> (n * 101 + j * 13 + 5) % 256]
InitPages ==
    [k \in PageKeys |-> [data |-> PageData(k[2]), locked |-> FALSE, is_dirty |-> FALSE]]

\* The worker threads that run the coin commands, and the files they read.
MaxWorkers == 2
Workers == 1..MaxWorkers
NoLocks == [k \in PageKeys |-> 0]
IdleThread ==
    [pc |-> "idle", cmd |-> "none", c |-> NoRequest, request |-> <<>>, i |-> 0,
     total_coins |-> 0, mfs |-> 0, aens |-> <<>>, r0 |-> 0, malloc_ok |-> TRUE,
     held |-> NoLocks, events |-> <<>>]

\* "%02hhx.%u" of a coin, and "%02x" sixteen times of a key id
CoinPath(den, sn) == Hex2(den) \o << sn >>
KeyPath(key_id) == [i \in 1..16 |-> Hex2(key_id[i])]

VARIABLES
    fragment_storage,   \* rke_core.c: static struct rke_fragment_t fragment_storage[256]
    fragment_count,     \* rke_core.c: static int fragment_count
    frag_files,         \* {cwd}/RKE/<dir>/fragment_NNN.bin, by path
    meta_files,         \* {cwd}/RKE/<dir>/metadata.bin, by path
    ci,                 \* the conn_info_t of the last request, after its handler
    args,               \* the caller's locals: key buffer, key size, metadata
    call,               \* the last step: its name, status and key buffer
    produced,           \* history: the last successful split (key, size, metadata, fragments)
    generated,          \* history: key id -> the key the last successful generate drew for it
    faulty,             \* a bit of fragment_storage flipped since it was last written
    nops,               \* requests handled so far
    pages,              \* the authenticity pages, by (denomination, page number)
    threads,            \* the worker threads: the handler each runs and where it is
    coin_files,         \* {cwd}/coins/<den>.<sn>.bin, by (den, sn)
    key_files,          \* {cwd}/Keys/<key id>, by key id
    recursive           \* whether a thread may take again a page lock it holds

rkeVars == << fragment_storage, fragment_count, frag_files, meta_files, ci, args, call,
              produced, generated, faulty, nops >>

srvVars == << threads, coin_files, key_files, recursive >>

coinVars == << pages, srvVars >>

vars == << rkeVars, coinVars >>

\* no coin command is running; no coin file, no key file
CoinIds == { << 1, 100 >>, << 1, 101 >>, << 1, 102 >>, << 1, 103 >> }
CoinPaths == { CoinPath(k[1], k[2]) : k \in CoinIds }
ChatKeyIds == { [i \in 1..16 |-> i - 1], [i \in 1..16 |-> 16 - i] }
KeyPaths == { KeyPath(k) : k \in ChatKeyIds }
NoFile == [exists |-> FALSE, bytes |-> <<>>]
InitSrvIdle ==
    /\ threads = [w \in Workers |-> IdleThread]
    /\ coin_files = [p \in CoinPaths |-> NoFile]
    /\ key_files = [p \in KeyPaths |-> NoFile]
    /\ recursive = FALSE

\* the record of a step; fields a step does not use keep these values
NoCall == [op |-> "none", rv |-> 0, key |-> NullKey, meta_null |-> FALSE, arg |-> <<>>]

NothingProduced == [valid |-> FALSE, key |-> <<>>, key_size |-> 0,
                    meta |-> NullMetadata, storage |-> ZeroStorage]

NoKey == <<>>

\* the caller's keys: two byte patterns of each length
KeySeeds == {170, 1}
TestKeys(len) == { [i \in 1..len |-> (s * i) % 256] : s \in KeySeeds }

\* uint8_t header values
Uint8 == 0..MaxFragments

TestMetadata(total, thr) == Metadata(KeyA, RKE_KEY_TYPE_SYMMETRIC, total, thr, 0, 1, 12345)

\* the locals of a test: key[..], its size, metadata
Args(key, key_size, meta) == [key |-> key, key_size |-> key_size, meta |-> meta]

\* an empty data directory
NoFragFiles == [p \in FragPaths |-> NoFragFile]
NoMetaFiles == [p \in MetaPaths |-> NoMetaFile]

\* a process that has just started: the statics of rke_core.c are zero
InitRke ==
    /\ fragment_storage = ZeroStorage
    /\ fragment_count = 0
    /\ ci = NoRequest
    /\ call = NoCall
    /\ produced = NothingProduced
    /\ generated = [k \in KeyIds |-> NoKey]
    /\ faulty = FALSE
    /\ nops = 0
    /\ pages = InitPages
    /\ InitSrvIdle

\* a unit test starts with a key of some size and a metadata record
InitCore ==
    /\ InitRke
    /\ frag_files = NoFragFiles
    /\ meta_files = NoMetaFiles
    /\ \E key_size \in 0..(MaxKeySize + 1), total \in Uint8, thr \in Uint8 :
         \E key \in TestKeys(key_size) :
            args = Args(key, key_size, TestMetadata(total, thr))

(***************************************************************************)
(* Direct calls of the core, as the unit tests make them.                  *)
(***************************************************************************)
\* What the random source delivers over one split of total fragments: every
\* request succeeds (fail_at = 0), or the one for fragment fail_at is the
\* first to fail, which ends the split.
SplitRandom(total, key_size) ==
    UNION { { [f \in 2..total |->
                  IF fail_at # 0 /\ f >= fail_at
                  THEN [ok |-> FALSE, bytes |-> Zeros(key_size)]
                  ELSE [ok |-> TRUE, bytes |-> [i \in 1..key_size |-> (seed[f] * i) % 256]]]
              : seed \in [2..(IF fail_at = 0 THEN total ELSE fail_at - 1) -> RandSeeds] }
            : fail_at \in {0} \cup 2..total }

\* the random source is not consulted when the arguments are rejected
NoRandom(total, key_size) ==
    { [f \in 2..total |-> [ok |-> FALSE, bytes |-> Zeros(key_size)]] }

\* the history of the last successful split
Produced(key, key_size, meta, st) ==
    [valid |-> TRUE, key |-> key, key_size |-> key_size, meta |-> meta, storage |-> st]

\* rke_split_key(key, key_size, &metadata), or with NULL for one of the pointers
SplitKey ==
    \E key_null \in BOOLEAN, meta_null \in BOOLEAN :
      LET key  == IF key_null THEN NullKey ELSE KeyBuf(args.key)
          meta == IF meta_null THEN NullMetadata ELSE args.meta
          rejected == rke_split_key(key, args.key_size, meta,
                                    [f \in 2..args.meta.total_fragments |->
                                        [ok |-> FALSE, bytes |-> <<>>]],
                                    fragment_storage, fragment_count).rv
                      = RKE_ERROR_INVALID_PARAM
      IN
      \E rnd \in IF rejected THEN NoRandom(args.meta.total_fragments, args.key_size)
                 ELSE SplitRandom(args.meta.total_fragments, args.key_size) :
        \E r \in { rke_split_key(key, args.key_size, meta, rnd,
                                 fragment_storage, fragment_count) } :
            /\ ~(key_null /\ meta_null)
            /\ fragment_storage' = r.storage
            /\ fragment_count' = r.count
            /\ call' = [NoCall EXCEPT !.op = "split", !.rv = r.rv, !.key = key,
                                      !.meta_null = meta_null, !.arg = << rnd >>]
            /\ produced' = IF r.rv = RKE_SUCCESS
                           THEN Produced(args.key, args.key_size, meta, r.storage)
                           ELSE IF r.rv = RKE_ERROR_INVALID_PARAM THEN produced
                           ELSE NothingProduced
            /\ faulty' = IF r.rv = RKE_ERROR_INVALID_PARAM THEN faulty ELSE FALSE
            /\ ci' = NoRequest
            /\ UNCHANGED << frag_files, meta_files, args, generated, nops,
                    pages, srvVars >>

\* what an uninitialised local buffer of RKE_MAX_KEY_SIZE bytes holds
Uninitialized == [i \in 1..MaxKeySize |-> 238]

\* rke_reconstruct_key(key, key_size, &metadata) into such a buffer, or with NULL for one of the pointers
ReconstructCall(key_null, meta_null) ==
    LET key  == IF key_null THEN NullKey ELSE KeyBuf(Uninitialized)
        meta == IF meta_null THEN NullMetadata ELSE args.meta
    IN
    \E r \in { rke_reconstruct_key(key, args.key_size, meta,
                                   fragment_storage, fragment_count) } :
        /\ args.key_size <= MaxKeySize
        /\ call' = [NoCall EXCEPT !.op = "reconstruct", !.rv = r.rv, !.key = r.key,
                                  !.meta_null = meta_null]
        /\ ci' = NoRequest
        /\ UNCHANGED << fragment_storage, fragment_count, frag_files, meta_files,
                        args, produced, generated, faulty,
                    pages, srvVars >>

ReconstructKey ==
    \E key_null \in BOOLEAN, meta_null \in BOOLEAN :
        /\ ~(key_null /\ meta_null)
        /\ ReconstructCall(key_null, meta_null)
        /\ UNCHANGED nops

\* metadata.threshold = thr between two calls, as test_key_splitting does
SetThreshold ==
    \E thr \in Uint8 :
        /\ ~faulty
        /\ thr # args.meta.threshold
        /\ args' = [args EXCEPT !.meta.threshold = thr]
        /\ call' = [NoCall EXCEPT !.op = "set"]
        /\ ci' = NoRequest
        /\ UNCHANGED << fragment_storage, fragment_count, frag_files, meta_files,
                        produced, generated, faulty, nops,
                    pages, srvVars >>

\* a fault: bit 0 of data[0] of one fragment in fragment_storage flips
FlipBit ==
    \E slot \in Slots :
        /\ ~faulty
        /\ slot <= fragment_count
        /\ fragment_storage' = [fragment_storage EXCEPT ![slot].data[1] = Xor(@, 1)]
        /\ faulty' = TRUE
        /\ call' = [NoCall EXCEPT !.op = "flip", !.arg = << slot >>]
        /\ ci' = NoRequest
        /\ UNCHANGED << fragment_count, frag_files, meta_files, args, produced,
                        generated, nops,
                    pages, srvVars >>

\* rke_generate_key(key, key_size) into the caller's buffer, or with NULL
GenerateKey ==
    \E key_null \in BOOLEAN, rnd \in secure_random_bytes(args.key_size) :
      \E r \in { rke_generate_key(key_null, args.key_size, rnd) } :
        /\ call' = [NoCall EXCEPT !.op = "generate_key", !.rv = r.rv,
                                  !.key = IF key_null THEN NullKey ELSE KeyBuf(r.bytes),
                                  !.arg = << rnd >>]
        /\ ci' = NoRequest
        /\ UNCHANGED << fragment_storage, fragment_count, frag_files, meta_files,
                        args, produced, generated, faulty, nops, pages, srvVars >>

\* the two operations that take a key size
NextKeys == SplitKey \/ GenerateKey

SpecKeys == InitCore /\ [][NextKeys]_vars

NextCore == SplitKey \/ ReconstructKey \/ SetThreshold \/ FlipBit

SpecCore == InitCore /\ [][NextCore]_vars

(***************************************************************************)
(* Requests to the command handlers, and calls of the store.               *)
(***************************************************************************)
EOF_MARKER == << 255, 255 >>

\* (total_fragments, threshold) pairs of the generate requests
GenerateShapes == { <<2, 2>>, <<MaxFragments, 2>>, <<2, 1>> }

GenerateBody(key_id, total, thr) ==
    key_id \o << RKE_KEY_TYPE_SYMMETRIC, total, thr >> \o EOF_MARKER

GenerateBodies ==
    { GenerateBody(k, sh[1], sh[2]) : k \in KeyIds, sh \in GenerateShapes }
    \cup { KeyA \o << RKE_KEY_TYPE_SYMMETRIC, 2, 2, 255 >> }

KeyBodies == { k \o EOF_MARKER : k \in KeyIds } \cup { KeyA \o << 255 >> }

ExchangeBodies ==
    { KeyA \o << id >> \o EOF_MARKER : id \in Uint8 }
    \cup { KeyC \o << 1 >> \o EOF_MARKER, KeyA \o << 1, 255 >> }

\* malloc fails for some requests
MallocOutcomes(body) ==
    IF SubSeq(body, 1, RKE_KEY_ID_SIZE + 1) = KeyA \o <<1>> \/ body = KeyA \o EOF_MARKER
    THEN BOOLEAN ELSE {TRUE}

\* time(NULL)
Now == 1721433600

\* every random request of a split succeeds
AllOk(total) ==
    [f \in 2..total |-> [ok |-> TRUE, bytes |-> [i \in 1..MaxKeySize |-> (60 * i) % 256]]]

\* the random request for fragment 2 fails
FailsAt2(total) == [AllOk(total) EXCEPT ![2] = [ok |-> FALSE, bytes |-> <<>>]]

GenerateEnv(kr, r, io, m) ==
    [key_rnd |-> kr, rnd |-> r, now |-> Now, io_ok |-> io, malloc_ok |-> m]

\* What the environment does during one cmd_rke_generate: everything works
\* (with any random key), or one of the key draw, a mask draw, the metadata
\* write and malloc fails.  A request the handler rejects draws nothing.
GenerateEnvs(body) ==
    LET keys == { x \in secure_random_bytes(MaxKeySize) : x.ok }
        key1 == CHOOSE x \in keys : x.bytes[1] = 60
        total == body[RKE_KEY_ID_SIZE + 2]
    IN  IF Len(body) # 21 \/ body[RKE_KEY_ID_SIZE + 3] > total
           \/ body[RKE_KEY_ID_SIZE + 3] < RKE_MIN_THRESHOLD
        THEN { GenerateEnv(key1, << >>, TRUE, TRUE) }
        ELSE { GenerateEnv(kr, AllOk(total), TRUE, TRUE) : kr \in keys }
             \cup IF body # GenerateBody(KeyA, 2, 2) THEN {}
                  ELSE { GenerateEnv([ok |-> FALSE, bytes |-> <<>>], AllOk(total), TRUE, TRUE),
                         GenerateEnv(key1, FailsAt2(total), TRUE, TRUE),
                         GenerateEnv(key1, AllOk(total), FALSE, TRUE),
                         GenerateEnv(key1, AllOk(total), TRUE, FALSE) }

GenerateEnvsOf == [body \in GenerateBodies |-> GenerateEnvs(body)]

\* The key a peer process generated for key_id, and the fragments its split
\* left: these are what the callers of rke_store_fragment hold.
PeerKey(key_id) == [i \in 1..MaxKeySize |-> (key_id[1] * 7 + 90 * i) % 256]
PeerMetadata(key_id) ==
    Metadata(key_id, RKE_KEY_TYPE_SYMMETRIC, MaxFragments, 2, Now, 0, 0)
PeerSplit(key_id) ==
    rke_split_key(KeyBuf(PeerKey(key_id)), MaxKeySize, PeerMetadata(key_id),
                  AllOk(MaxFragments), ZeroStorage, 0).storage
\* ... and a record that fails the validation (fragment_id 0)
PeerFragments ==
    [key_id \in KeyIds |->
        { PeerSplit(key_id)[i] : i \in Slots }
        \cup { [PeerSplit(key_id)[1] EXCEPT !.fragment_id = 0] }]

\* The data directory a process finds when it starts: empty, or left by an
\* earlier run that generated KeyA and stored its fragments.
RECURSIVE StoreAll(_, _, _, _)
StoreAll(st, key_id, n, ff) ==
    IF n = 0 THEN ff
    ELSE rke_store_fragment(st[n], key_id, StoreAll(st, key_id, n - 1, ff)).files

EarlierRun ==
    [frag_files |-> StoreAll(PeerSplit(KeyA), KeyA, MaxFragments, NoFragFiles),
     meta_files |-> rke_store_metadata(PeerMetadata(KeyA), NoMetaFiles, TRUE).files,
     generated  |-> [k \in KeyIds |-> IF k = KeyA THEN PeerKey(KeyA) ELSE NoKey]]

FreshDirectory ==
    [frag_files |-> NoFragFiles, meta_files |-> NoMetaFiles,
     generated  |-> [k \in KeyIds |-> NoKey]]

\* a process that serves requests
InitProto ==
    /\ fragment_storage = ZeroStorage
    /\ fragment_count = 0
    /\ ci = NoRequest
    /\ call = NoCall
    /\ produced = NothingProduced
    /\ faulty = FALSE
    /\ nops = 0
    /\ pages = InitPages
    /\ InitSrvIdle
    /\ \E thr \in { RKE_MIN_THRESHOLD, MaxFragments } :
          args = Args(<<>>, MaxKeySize, TestMetadata(MaxFragments, thr))
    /\ \E dir \in { FreshDirectory, EarlierRun } :
          /\ frag_files = dir.frag_files
          /\ meta_files = dir.meta_files
          /\ generated = dir.generated

\* a request to cmd_rke_generate
CmdGenerate ==
    /\ nops < MaxOps
    /\ \E body \in GenerateBodies :
        \E env \in GenerateEnvsOf[body] :
          \E r \in { cmd_rke_generate(ConnInfo(body), env, fragment_storage,
                                      fragment_count, meta_files) } :
              /\ nops' = nops + 1
              /\ ci' = r.ci
              /\ fragment_storage' = r.storage
              /\ fragment_count' = r.count
              /\ meta_files' = r.meta_files
              /\ produced' = IF r.storage = fragment_storage /\ r.count = fragment_count
                             THEN produced
                             ELSE IF r.count = 0 THEN NothingProduced
                             ELSE Produced(r.key, MaxKeySize,
                                           Metadata(SubSeq(body, 1, RKE_KEY_ID_SIZE), body[17],
                                                    body[18], body[19], env.now, 0, 0),
                                           r.storage)
              /\ generated' = IF r.ci.command_status = STATUS_SUCCESS
                              THEN [generated EXCEPT ![SubSeq(body, 1, RKE_KEY_ID_SIZE)] = r.key]
                              ELSE generated
              /\ faulty' = IF r.storage = fragment_storage THEN faulty ELSE FALSE
              /\ call' = [NoCall EXCEPT !.op = "cmd_rke_generate"]
              /\ UNCHANGED << frag_files, args,
                    pages, srvVars >>

\* a request to cmd_rke_query
CmdQuery ==
    /\ nops < MaxOps
    /\ \E body \in KeyBodies :
        \E malloc_ok \in MallocOutcomes(body) :
          /\ nops' = nops + 1
          /\ ci' = cmd_rke_query(ConnInfo(body), malloc_ok, frag_files, meta_files)
          /\ call' = [NoCall EXCEPT !.op = "cmd_rke_query"]
          /\ UNCHANGED << fragment_storage, fragment_count, frag_files, meta_files, args,
                          produced, generated, faulty,
                    pages, srvVars >>

\* a request to cmd_rke_reconstruct
CmdReconstruct ==
    /\ nops < MaxOps
    /\ \E body \in KeyBodies :
        \E malloc_ok \in MallocOutcomes(body) :
          /\ nops' = nops + 1
          /\ ci' = cmd_rke_reconstruct(ConnInfo(body), malloc_ok, fragment_storage,
                                       fragment_count, frag_files, meta_files)
          /\ call' = [NoCall EXCEPT !.op = "cmd_rke_reconstruct"]
          /\ UNCHANGED << fragment_storage, fragment_count, frag_files, meta_files, args,
                          produced, generated, faulty,
                    pages, srvVars >>

\* a request to cmd_rke_exchange
CmdExchange ==
    /\ nops < MaxOps
    /\ \E body \in ExchangeBodies :
        \E malloc_ok \in MallocOutcomes(body) :
          /\ nops' = nops + 1
          /\ ci' = cmd_rke_exchange(ConnInfo(body), malloc_ok, frag_files)
          /\ call' = [NoCall EXCEPT !.op = "cmd_rke_exchange"]
          /\ UNCHANGED << fragment_storage, fragment_count, frag_files, meta_files, args,
                          produced, generated, faulty,
                    pages, srvVars >>

\* the fragment file of a key id and a fragment id, if the id has a path
FragmentFile(key_id, fragment_id, ff) ==
    IF FragmentPath(key_id, fragment_id) \in DOMAIN ff
    THEN ff[FragmentPath(key_id, fragment_id)]
    ELSE [exists |-> FALSE, rec |-> ZeroFragment]

\* rke_store_fragment(&fragment, key_id); the record of the call keeps the file
\* as it was before
StoreFragment ==
    /\ nops < MaxOps
    /\ \E key_id \in KeyIds :
        \E fragment \in PeerFragments[key_id] :
          \E r \in { rke_store_fragment(fragment, key_id, frag_files) } :
              /\ nops' = nops + 1
              /\ frag_files' = r.files
              /\ call' = [NoCall EXCEPT !.op = "store_fragment", !.rv = r.rv,
                                        !.arg = << fragment, key_id,
                                                   FragmentFile(key_id, fragment.fragment_id,
                                                                frag_files) >>]
              /\ ci' = NoRequest
              /\ UNCHANGED << fragment_storage, fragment_count, meta_files, args, produced,
                              generated, faulty,
                    pages, srvVars >>

\* rke_reconstruct_key(key, key_size, &metadata) called by the embedding program
ApiReconstructKey ==
    /\ nops < MaxOps
    /\ nops' = nops + 1
    /\ ReconstructCall(FALSE, FALSE)

Next ==
    \/ CmdGenerate
    \/ CmdQuery
    \/ CmdReconstruct
    \/ CmdExchange
    \/ StoreFragment
    \/ ApiReconstructKey

Spec == InitProto /\ [][Next]_vars

(***************************************************************************)
(* Fragment integrity, as test_fragment_integrity exercises it: a caller   *)
(* holds one fragment, has its checksum computed, changes bytes of it,     *)
(* puts them back, and verifies.                                           *)
(***************************************************************************)
\* everything but the caller's locals and the record of the last step
idleVars == << fragment_storage, fragment_count, frag_files, meta_files, ci, produced,
               generated, faulty, nops, pages, srvVars >>

\* a process in which no request and no split has happened
InitIdle ==
    /\ fragment_storage = ZeroStorage
    /\ fragment_count = 0
    /\ frag_files = NoFragFiles
    /\ meta_files = NoMetaFiles
    /\ ci = NoRequest
    /\ produced = NothingProduced
    /\ generated = [k \in KeyIds |-> NoKey]
    /\ faulty = FALSE
    /\ nops = 0
    /\ pages = InitPages
    /\ InitSrvIdle

\* stack bytes the test never writes
Garbage(n) == [i \in 1..n |-> 238]

\* the fragments a split of a caller's key leaves in fragment_storage
SplitFragments ==
    UNION { { rke_split_key(KeyBuf(key), key_size, TestMetadata(MaxFragments, 2),
                            AllOk(MaxFragments), ZeroStorage, 0).storage[i] :
                key \in TestKeys(key_size), i \in { 1, MaxFragments } } :
            key_size \in { 1, MaxKeySize } }

\* the fragment test_fragment_integrity fills in: header, data[0..size),
\* nothing else
TestFragments ==
    { Fragment(1, MaxFragments, 2, size,
               [i \in 1..MaxKeySize |-> IF i <= size THEN ((i - 1) * 3 + 42) % 256 ELSE 238],
               Garbage(1)) : size \in 0..MaxKeySize }

\* the locals of the test: the fragment, the fragment as its checksum was
\* computed, and the fragment as it was before the last change
FragmentArgs(f, origin, has_sum) ==
    [fragment |-> f, produced |-> f, before |-> f, origin |-> origin,
     has_sum |-> has_sum, restored |-> FALSE]

InitChecksum ==
    /\ InitIdle
    /\ call = NoCall
    /\ \/ \E f \in SplitFragments :
            args = FragmentArgs(f, "split", TRUE)
       \/ \E f \in TestFragments : args = FragmentArgs(f, "test", FALSE)

\* rke_calculate_checksum(&fragment)
CalculateChecksum ==
    /\ ~args.has_sum
    /\ \E f \in { rke_calculate_checksum(args.fragment) } :
          args' = [args EXCEPT !.fragment = f, !.produced = f, !.before = f,
                               !.has_sum = TRUE, !.restored = FALSE]
    /\ call' = [NoCall EXCEPT !.op = "calculate_checksum", !.rv = RKE_SUCCESS]
    /\ UNCHANGED idleVars

\* rke_verify_checksum(&fragment)
VerifyChecksum ==
    /\ args.has_sum
    /\ \E r \in { rke_verify_checksum_call(args.fragment) } :
          /\ args' = [args EXCEPT !.fragment = r.fragment]
          /\ call' = [NoCall EXCEPT !.op = "verify_checksum", !.rv = r.rv,
                                    !.arg = << args.fragment >>]
    /\ UNCHANGED idleVars

\* the bits a caller flips
FlipBits == { 0, 3, 7 }

\* one change of the record: a bit of a data byte, the complement of data[0]
\* (fragment.data[0] = ~original_byte), a header field, a bit of the checksum
Changes(f) ==
    { [f EXCEPT !.data[i] = Xor(@, Pow2(b))] : i \in 1..MaxKeySize, b \in FlipBits }
    \cup { [f EXCEPT !.data[1] = 255 - @] }
    \cup { [f EXCEPT !.fragment_id = (@ + 1) % 256],
           [f EXCEPT !.total_fragments = (@ + 1) % 256],
           [f EXCEPT !.threshold = (@ + 1) % 256] }
    \cup { [f EXCEPT !.fragment_size = n] : n \in (0..MaxKeySize) \ { f.fragment_size } }
    \cup { [f EXCEPT !.checksum[j] = Xor(@, 1)] : j \in 1..Len(f.checksum) }

\* the caller changes the record; at most two changes away from the record
\* the checksum was computed for
ChangeFragment ==
    /\ args.has_sum
    /\ args.fragment = args.produced \/ args.before = args.produced
    /\ ~args.restored
    /\ \E f \in Changes(args.fragment) :
          args' = [args EXCEPT !.fragment = f, !.before = args.fragment]
    /\ call' = [NoCall EXCEPT !.op = "change"]
    /\ UNCHANGED idleVars

\* fragment.data[0] = original_byte: the last change is undone
RestoreFragment ==
    /\ args.has_sum
    /\ args.fragment # args.before
    /\ ~args.restored
    /\ args' = [args EXCEPT !.fragment = args.before, !.before = args.fragment,
                            !.restored = TRUE]
    /\ call' = [NoCall EXCEPT !.op = "restore"]
    /\ UNCHANGED idleVars

NextChecksum == CalculateChecksum \/ VerifyChecksum \/ ChangeFragment \/ RestoreFragment

SpecChecksum == InitChecksum /\ [][NextChecksum]_vars

(***************************************************************************)
(* The stream transform (aes.h), applied by a caller to a buffer.          *)
(***************************************************************************)
\* a transform that runs over the first 8 key bytes only
crypt_ctr_mod8(key, data, length, nonce) ==
    [i \in 1..Len(data) |->
        IF i <= length
        THEN Xor(data[i], Xor(key[((i - 1) % 8) + 1], nonce[((i - 1) % 16) + 1]))
        ELSE data[i]]

\* crypt_ctr(key, data, length, nonce): data[i] ^= key[i % 16] ^ nonce[i % 16]
crypt_ctr(key, data, length, nonce) ==
    [i \in 1..Len(data) |->
        IF i <= length
        THEN Xor(data[i], Xor(key[((i - 1) % 16) + 1], nonce[((i - 1) % 16) + 1]))
        ELSE data[i]]

(***************************************************************************)
(* Fragment encryption (rke_crypto.c): the stream transform over           *)
(* data[0 .. fragment_size) and a new checksum.  A NULL argument is marked *)
(* by its flag.                                                            *)
(***************************************************************************)
\* rke_encrypt_fragment: status, and the caller's fragment afterwards
rke_encrypt_fragment(fragment, fragment_null, key, key_null, nonce, nonce_null) ==
    IF fragment_null \/ key_null \/ nonce_null
    THEN [rv |-> RKE_ERROR_INVALID_PARAM, fragment |-> fragment]
    ELSE IF rke_validate_fragment(fragment) # RKE_SUCCESS
    THEN [rv |-> RKE_ERROR_INVALID_PARAM, fragment |-> fragment]
    ELSE [rv |-> RKE_SUCCESS,
          fragment |-> rke_calculate_checksum(
                          [fragment EXCEPT !.data = crypt_ctr(key, @, fragment.fragment_size,
                                                              nonce)])]

\* rke_decrypt_fragment that puts back the checksum it saved before the
\* transform (original_checksum)
rke_decrypt_fragment_saved_checksum(fragment, fragment_null, key, key_null, nonce, nonce_null) ==
    IF fragment_null \/ key_null \/ nonce_null
    THEN [rv |-> RKE_ERROR_INVALID_PARAM, fragment |-> fragment]
    ELSE [rv |-> RKE_SUCCESS,
          fragment |-> [fragment EXCEPT !.data = crypt_ctr(key, @, fragment.fragment_size,
                                                          nonce)]]

\* rke_decrypt_fragment: status, and the caller's fragment afterwards.  It
\* does not validate the fragment; the caller keeps fragment_size within the
\* data array (see DecryptFragment).
rke_decrypt_fragment(fragment, fragment_null, key, key_null, nonce, nonce_null) ==
    IF fragment_null \/ key_null \/ nonce_null
    THEN [rv |-> RKE_ERROR_INVALID_PARAM, fragment |-> fragment]
    ELSE [rv |-> RKE_SUCCESS,
          fragment |-> rke_calculate_checksum(
                          [fragment EXCEPT !.data = crypt_ctr(key, @, fragment.fragment_size,
                                                              nonce)])]

MaxBufLen == 18

CtrKeys == { [i \in 1..16 |-> (i * 29 + 3) % 256], [i \in 1..16 |-> (255 - i * 11) % 256] }
CtrNonces == { TestNonce, [i \in 1..16 |-> (i * i + 128) % 256] }
CtrBuffers ==
    { [i \in 1..n |-> (seed * i + 11) % 256] : n \in 0..MaxBufLen, seed \in { 37, 200 } }

InitCtr ==
    /\ InitIdle
    /\ call = NoCall
    /\ \E key \in CtrKeys, nonce \in CtrNonces, buf \in CtrBuffers :
         \E length \in { Len(buf), Len(buf) \div 2 } :
            args = [key |-> key, nonce |-> nonce, original |-> buf, data |-> buf,
                    length |-> length, applied |-> "never"]

\* crypt_ctr(key, data, length, nonce), up to twice on the same buffer
CryptCtr ==
    /\ args.applied # "twice"
    /\ args' = [args EXCEPT !.data = crypt_ctr(args.key, args.data, args.length, args.nonce),
                            !.applied = IF @ = "never" THEN "once" ELSE "twice"]
    /\ call' = [NoCall EXCEPT !.op = "crypt_ctr"]
    /\ UNCHANGED idleVars

NextCtr == CryptCtr

SpecCtr == InitCtr /\ [][NextCtr]_vars

(***************************************************************************)
(* The legacy coin commands (examples/cmd_key_exechange.c).                *)
(***************************************************************************)
NO_ERROR == 0

\* (int8_t) of a byte, and (unsigned char) of an int8_t
ToInt8(b) == IF b >= 128 THEN b - 256 ELSE b
ToUint8(d) == (d + 256) % 256

\* get_sn: the four bytes read as a uint32_t of the host (little-endian)
get_sn(p) == p[1] + 256 * p[2] + 65536 * p[3] + 16777216 * p[4]

\* get_page_by_sn_lock(den, sn): the page that holds the coin, locked, or NULL
get_page_by_sn_lock(den, sn, pg) ==
    LET k == << den, sn \div RECORDS_PER_PAGE >>
    IN  IF k \in DOMAIN pg THEN [null |-> FALSE, key |-> k] ELSE [null |-> TRUE, key |-> k]

\* the 16 bytes of cmd_encrypt_key before the transform, without the last byte
encrypt_key_plain_no_sentinel(payload, den, r0) ==
    SubSeq(payload, 6, 13) \o << ToUint8(den) >> \o SubSeq(payload, 2, 5)
    \o << (r0 \div 256) % 256, r0 % 256, 0 >>

\* the 16 bytes of cmd_encrypt_key before the transform
encrypt_key_plain(payload, den, r0) ==
    SubSeq(payload, 6, 13) \o << ToUint8(den) >> \o SubSeq(payload, 2, 5)
    \o << (r0 \div 256) % 256, r0 % 256, 255 >>

\* cmd_encrypt_key, run from the request to its return.  r0 is rand().  The
\* page lock is taken by the lookup and released after the copy of the secret.
cmd_encrypt_key(c, r0, malloc_ok, pg) ==
    LET payload == c.body IN
    IF c.body_size # 31
    THEN Status(c, ERROR_INVALID_PACKET_LENGTH)
    ELSE
      LET den == ToInt8(payload[1])
          sn == get_sn(SubSeq(payload, 2, 5))
          page == get_page_by_sn_lock(den, sn, pg)
      IN
      IF page.null
      THEN Status(c, ERROR_INVALID_SN_OR_DENOMINATION)
      ELSE
        LET sn_idx == sn % RECORDS_PER_PAGE
            aen == SubSeq(pg[page.key].data, sn_idx * 17 + 1, sn_idx * 17 + 16)
        IN
        IF ~malloc_ok
        THEN [c EXCEPT !.output_size = 16, !.command_status = ERROR_MEMORY_ALLOC]
        ELSE [c EXCEPT !.output_size = 16,
                       !.output_null = FALSE,
                       !.output = crypt_ctr(aen, encrypt_key_plain(payload, den, r0),
                                            16, c.nonce),
                       !.command_status = NO_ERROR]

\* requests to encrypt_key: den, the four sn bytes, eight key bytes, then the
\* rest of the 31 bytes
EncryptBody(den, sn0, sn3, seed) ==
    << den, sn0, 0, 0, sn3 >> \o [i \in 1..8 |-> (seed * i) % 256]
    \o [i \in 1..16 |-> 0] \o EOF_MARKER

EncryptBodies ==
    { EncryptBody(den, sn0, 0, seed) :
        den \in { 1, 2, 200 }, sn0 \in 0..(RECORDS_PER_PAGE * MaxPages), seed \in { 19, 77 } }
    \cup { EncryptBody(1, 0, 1, 19), SubSeq(EncryptBody(1, 0, 0, 19), 1, 30) }

RandValues == { 0, 4660, 2147483647 }

\* a request to cmd_encrypt_key; the handler waits for the page lock
CmdEncryptKey ==
    \E body \in EncryptBodies, nonce \in CtrNonces, r0 \in RandValues,
       malloc_ok \in BOOLEAN :
        /\ malloc_ok \/ body = EncryptBody(1, 0, 0, 19)
        /\ \A k \in DOMAIN pages : ~pages[k].locked
        /\ ci' = cmd_encrypt_key([ConnInfo(body) EXCEPT !.nonce = nonce], r0, malloc_ok, pages)
        /\ call' = [NoCall EXCEPT !.op = "cmd_encrypt_key"]
        /\ UNCHANGED << fragment_storage, fragment_count, frag_files, meta_files, args,
                        produced, generated, faulty, nops, pages, srvVars >>

InitCoin ==
    /\ InitRke
    /\ frag_files = NoFragFiles
    /\ meta_files = NoMetaFiles
    /\ args = Args(<<>>, 0, NullMetadata)

NextCoin == CmdEncryptKey

SpecCoin == InitCoin /\ [][NextCoin]_vars

(***************************************************************************)
(* The coin commands as worker threads run them                            *)
(* (examples/cmd_key_exechange.c).  A thread stops only where it asks for  *)
(* a page lock; what it does between two such points is one step.          *)
(***************************************************************************)
ERROR_COIN_LOAD == -6
ERROR_COINS_NOT_DIV == -7
ERROR_INVALID_KEY_START == -10

\* config.coin_id
ConfigCoinId == 1

\* load_my_enc_coin(den, sn, buf): status and the 400 bytes copied to buf.
\* tmp_buf is char[]: a byte of 0x80 or more is negative when the id is built.
load_my_enc_coin(den, sn, cf) ==
    LET path == CoinPath(den, sn)
        none == [rv |-> -1, buf |-> <<>>]
    IN  IF path \notin DOMAIN cf THEN none
        ELSE IF ~cf[path].exists THEN none
        ELSE IF Len(cf[path].bytes) < 440 THEN none
        ELSE
          LET tmp_buf == SubSeq(cf[path].bytes, 1, 440)
              coin_id == IF tmp_buf[4] >= 128 THEN 65280 + tmp_buf[4]
                         ELSE tmp_buf[3] * 256 + tmp_buf[4]
          IN  IF coin_id # ConfigCoinId THEN none
              ELSE [rv |-> 0, buf |-> SubSeq(tmp_buf, 41, 440)]

\* the fields of coin block i (from 0) of a decrypt_raida_key payload
BlockAt(payload, i) ==
    LET o == 21 + i * 26 IN
    [split_id |-> payload[o + 3],
     da       |-> payload[o + 4],
     den      |-> ToInt8(payload[o + 6]),
     sn       |-> get_sn(SubSeq(payload, o + 7, o + 10)),
     ky       |-> SubSeq(payload, o + 11, o + 26)]

\* ky points into the payload: the transform rewrites the request in place
PutKy(payload, i, ky) ==
    [j \in 1..Len(payload) |->
        IF j >= 21 + i * 26 + 11 /\ j <= 21 + i * 26 + 26
        THEN ky[j - (21 + i * 26 + 10)]
        ELSE payload[j]]

\* the page lock: a thread that asks for a locked page waits, unless the lock
\* is recursive and its own
CanLock(pg, k, held, rec) == ~pg[k].locked \/ (rec /\ held[k] > 0)

\* unlock_page of the thread that holds the lock
unlock_page(pg, k, held) ==
    [pages |-> [pg EXCEPT ![k].locked = (held[k] > 1)],
     held  |-> [held EXCEPT ![k] = IF @ > 0 THEN @ - 1 ELSE 0]]

\* the handler returns: the thread is idle again and keeps what it holds
Return(t, code) == [t EXCEPT !.pc = "idle", !.c.command_status = code]

\* ci->output[i] = 0x0; f++; continue
RejectBlock(t) == [t EXCEPT !.c.output[t.i + 1] = 0, !.i = t.i + 1]

\* the end with the output size left as the request size
decrypt_raida_key_finish_body_size(t) ==
    Return([t EXCEPT !.c.output_size = t.c.body_size], STATUS_SUCCESS)

\* the end of cmd_decrypt_raida_key, after the loop
decrypt_raida_key_finish(t) ==
    Return([t EXCEPT !.c.output_size = t.total_coins], STATUS_SUCCESS)

\* the loop of cmd_decrypt_raida_key from the top of an iteration up to the
\* next call of get_page_by_sn_lock, or to the return
RECURSIVE decrypt_raida_key_loop(_)
decrypt_raida_key_loop(t) ==
    IF t.i >= t.total_coins
    THEN decrypt_raida_key_finish(t)
    ELSE
      LET b == BlockAt(t.c.body, t.i)
          checked == [t EXCEPT !.events = Append(@, "range")]
      IN  IF b.da > 24
          THEN decrypt_raida_key_loop(RejectBlock(checked))
          ELSE IF b.split_id # 0 /\ b.split_id # 1
          THEN decrypt_raida_key_loop(RejectBlock(checked))
          ELSE [checked EXCEPT !.pc = "lock1"]

\* a cmd_decrypt_raida_key that takes coin_length / 26 blocks without the
\* divisibility check
decrypt_raida_key_begin_no_div(t0, c, mfs, malloc_ok, cf) ==
    LET payload == c.body
        t == [t0 EXCEPT !.cmd = "cmd_decrypt_raida_key", !.c = c, !.request = c.body,
                        !.i = 0, !.total_coins = 0, !.mfs = 0, !.aens = <<>>,
                        !.events = << "size" >>]
    IN
    IF c.body_size < 49
    THEN Return(t, ERROR_INVALID_PACKET_LENGTH)
    ELSE
      LET total_coins == (c.body_size - 23) \div 26
          den == ToInt8(payload[1])
          sn == get_sn(SubSeq(payload, 2, 5))
          loaded == load_my_enc_coin(ToUint8(den), sn, cf)
          t2 == [t EXCEPT !.events = Append(@, "io"), !.mfs = mfs,
                          !.total_coins = total_coins]
      IN
      IF loaded.rv < 0
      THEN Return(t2, ERROR_COIN_LOAD)
      ELSE IF ~malloc_ok
      THEN Return(t2, ERROR_MEMORY_ALLOC)
      ELSE decrypt_raida_key_loop(
               [t2 EXCEPT !.aens = loaded.buf,
                          !.c.output_null = FALSE,
                          !.c.output = [j \in 1..total_coins |-> 0]])

\* cmd_decrypt_raida_key from its entry to the first page lock it asks for.
\* mfs is get_mfs().
decrypt_raida_key_begin(t0, c, mfs, malloc_ok, cf) ==
    LET payload == c.body
        t == [t0 EXCEPT !.cmd = "cmd_decrypt_raida_key", !.c = c, !.request = c.body,
                        !.i = 0, !.total_coins = 0, !.mfs = 0, !.aens = <<>>,
                        !.events = << "size" >>]
    IN
    IF c.body_size < 49
    THEN Return(t, ERROR_INVALID_PACKET_LENGTH)
    ELSE
      LET coin_length == c.body_size - 23
          t1 == [t EXCEPT !.events = Append(@, "div")]
      IN
      IF coin_length % 26 # 0
      THEN Return(t1, ERROR_COINS_NOT_DIV)
      ELSE
        LET total_coins == coin_length \div 26
            den == ToInt8(payload[1])
            sn == get_sn(SubSeq(payload, 2, 5))
            loaded == load_my_enc_coin(ToUint8(den), sn, cf)
            t2 == [t1 EXCEPT !.events = Append(@, "io"), !.mfs = mfs,
                             !.total_coins = total_coins]
        IN
        IF loaded.rv < 0
        THEN Return(t2, ERROR_COIN_LOAD)
        ELSE IF ~malloc_ok
        THEN Return(t2, ERROR_MEMORY_ALLOC)
        ELSE decrypt_raida_key_loop(
                 [t2 EXCEPT !.aens = loaded.buf,
                            !.c.output_null = FALSE,
                            !.c.output = [j \in 1..total_coins |-> 0]])

\* the secret the handler decrypts block i with: crypt_ctr(&aens[da], ..)
decrypt_raida_key_aen(aens, da) == SubSeq(aens, da + 1, da + 16)

\* the secret of peer da: aens[da * 16 .. da * 16 + 15]
decrypt_raida_key_aen_of_peer(aens, da) == SubSeq(aens, da * 16 + 1, da * 16 + 16)

\* dec_den != den || dec_sn != sn: uint8_t against int8_t, uint32_t against uint32_t
BindingDiffers(dec_den, dec_sn, den, sn) == dec_den # den \/ dec_sn # sn

\* a rejected block also stamps the record
decrypt_raida_key_reject_stamps(t, pg, k, sn) ==
    [t |-> decrypt_raida_key_loop(RejectBlock(t)),
     pages |-> [pg EXCEPT ![k].data[(sn % RECORDS_PER_PAGE) * 17 + 17] = t.mfs,
                          ![k].is_dirty = TRUE]]

\* a block rejected after its page was found: continue
decrypt_raida_key_reject(t, pg, k, sn) ==
    [t |-> decrypt_raida_key_loop(RejectBlock(t)), pages |-> pg]

\* from the first get_page_by_sn_lock of block i to the second one, or to the
\* next block's.  The caller has seen that the lock can be taken.
decrypt_raida_key_verify(t, pg) ==
    LET b == BlockAt(t.c.body, t.i)
        page == get_page_by_sn_lock(b.den, b.sn, pg)
        asked == [t EXCEPT !.events = Append(@, "io")]
    IN
    IF page.null
    THEN [t |-> decrypt_raida_key_loop(RejectBlock(asked)), pages |-> pg]
    ELSE
      LET k == page.key
          ky == crypt_ctr(decrypt_raida_key_aen(t.aens, b.da), b.ky, 16, t.c.nonce)
          locked == [asked EXCEPT !.held[k] = @ + 1,
                                  !.c.body = PutKy(@, t.i, ky)]
          pg1 == [pg EXCEPT ![k].locked = TRUE]
          dec_den == ky[9]
          dec_sn == get_sn(SubSeq(ky, 10, 13))
      IN
      IF ky[16] # 255
      THEN decrypt_raida_key_reject(locked, pg1, k, b.sn)
      ELSE IF BindingDiffers(dec_den, dec_sn, b.den, b.sn)
      THEN decrypt_raida_key_reject(locked, pg1, k, b.sn)
      ELSE [t |-> [locked EXCEPT !.pc = "lock2"], pages |-> pg1]

\* a commit whose unlock_page gives the page lock up altogether
decrypt_raida_key_commit_released(t, pg) ==
    LET b == BlockAt(t.c.body, t.i)
        page == get_page_by_sn_lock(b.den, b.sn, pg)
        asked == [t EXCEPT !.events = Append(@, "io")]
    IN
    IF page.null
    THEN [t |-> decrypt_raida_key_loop(RejectBlock(asked)), pages |-> pg]
    ELSE
      LET k == page.key
          sn_idx == b.sn % RECORDS_PER_PAGE
          at == sn_idx * 17 + b.split_id * 8
          data == [j \in 1..Len(pg[k].data) |->
                      IF j >= at + 1 /\ j <= at + 8 THEN b.ky[j - at]
                      ELSE IF j = sn_idx * 17 + 17 THEN t.mfs
                      ELSE pg[k].data[j]]
      IN  [t |-> decrypt_raida_key_loop(
                     [asked EXCEPT !.held[k] = 0,
                                   !.c.output[t.i + 1] = 1,
                                   !.i = t.i + 1]),
           pages |-> [pg EXCEPT ![k].locked = FALSE, ![k].data = data,
                                ![k].is_dirty = TRUE]]

\* from the second get_page_by_sn_lock of block i to the next call of it, or to
\* the return: the record is written and the page unlocked once
decrypt_raida_key_commit(t, pg) ==
    LET b == BlockAt(t.c.body, t.i)
        page == get_page_by_sn_lock(b.den, b.sn, pg)
        asked == [t EXCEPT !.events = Append(@, "io")]
    IN
    IF page.null
    THEN [t |-> decrypt_raida_key_loop(RejectBlock(asked)), pages |-> pg]
    ELSE
      LET k == page.key
          sn_idx == b.sn % RECORDS_PER_PAGE
          at == sn_idx * 17 + b.split_id * 8
          data == [j \in 1..Len(pg[k].data) |->
                      IF j >= at + 1 /\ j <= at + 8 THEN b.ky[j - at]
                      ELSE IF j = sn_idx * 17 + 17 THEN t.mfs
                      ELSE pg[k].data[j]]
          pg1 == [pg EXCEPT ![k].locked = TRUE, ![k].data = data, ![k].is_dirty = TRUE]
          un == unlock_page(pg1, k, [asked.held EXCEPT ![k] = @ + 1])
      IN  [t |-> decrypt_raida_key_loop(
                     [asked EXCEPT !.held = un.held,
                                   !.c.output[t.i + 1] = 1,
                                   !.i = t.i + 1]),
           pages |-> un.pages]

\* the page whose lock the thread is waiting for, if there is such a page
WantedPage(t, pg) ==
    LET b == BlockAt(t.c.body, t.i) IN get_page_by_sn_lock(b.den, b.sn, pg)

\* cmd_encrypt_key up to its call of get_page_by_sn_lock
encrypt_key_begin(t0, c, r0, malloc_ok, pg) ==
    LET t == [t0 EXCEPT !.cmd = "cmd_encrypt_key", !.c = c, !.request = c.body,
                        !.i = 0, !.total_coins = 0, !.mfs = 0, !.aens = <<>>,
                        !.r0 = r0, !.malloc_ok = malloc_ok, !.events = << "size" >>]
    IN  IF c.body_size # 31
        THEN [t EXCEPT !.pc = "idle", !.c = cmd_encrypt_key(c, r0, malloc_ok, pg)]
        ELSE [t EXCEPT !.pc = "enc_lock"]

\* the page cmd_encrypt_key asks for
EncryptPage(t, pg) ==
    get_page_by_sn_lock(ToInt8(t.c.body[1]), get_sn(SubSeq(t.c.body, 2, 5)), pg)

\* cmd_encrypt_key from get_page_by_sn_lock to its return: the lock is taken,
\* the secret copied and the lock released
encrypt_key_locked(t, pg) ==
    [t EXCEPT !.pc = "idle", !.events = Append(@, "io"),
              !.c = cmd_encrypt_key(t.c, t.r0, t.malloc_ok, pg)]

\* write(fd, bytes, n) at offset off of a file opened without O_TRUNC
WriteAt(old, off, bytes) ==
    [j \in 1..(IF Len(old) > off + Len(bytes) THEN Len(old) ELSE off + Len(bytes)) |->
        IF j > off /\ j <= off + Len(bytes) THEN bytes[j - off] ELSE old[j]]

\* a cmd_post_key that opens the key file before it checks ks and kl
cmd_post_key_open_first(c, kf, io) ==
    LET payload == c.body IN
    IF c.body_size # 185
    THEN [ci |-> Status(c, ERROR_INVALID_PACKET_LENGTH), files |-> kf]
    ELSE
      LET den == ToInt8(payload[33])
          ks == payload[166]
          kl == payload[167]
          key_path == KeyPath(SubSeq(payload, 1, 16))
          old == IF kf[key_path].exists THEN kf[key_path].bytes ELSE <<>>
          file(bytes) == [kf EXCEPT ![key_path] = [exists |-> TRUE, bytes |-> bytes]]
          w1 == WriteAt(old, 0, << ToUint8(den) >>)
          w2 == WriteAt(w1, 1, SubSeq(payload, 34, 37))
      IN
      IF io = "open"
      THEN [ci |-> Status(c, ERROR_FILESYSTEM), files |-> kf]
      ELSE IF ks + kl > 127
      THEN [ci |-> Status(c, ERROR_INVALID_KEY_START), files |-> file(old)]
      ELSE IF io = "den"
      THEN [ci |-> Status(c, ERROR_FILESYSTEM), files |-> file(old)]
      ELSE IF io = "sn"
      THEN [ci |-> Status(c, ERROR_FILESYSTEM), files |-> file(w1)]
      ELSE IF io = "key"
      THEN [ci |-> Status(c, ERROR_FILESYSTEM), files |-> file(w2)]
      ELSE [ci |-> Status(c, STATUS_SUCCESS),
            files |-> file(WriteAt(w2, 5, SubSeq(payload, 38 + ks, 37 + ks + kl)))]

\* a cmd_post_key that lets ks + kl = 128 pass
cmd_post_key_limit128(c, kf, io) ==
    LET payload == c.body IN
    IF c.body_size # 185
    THEN [ci |-> Status(c, ERROR_INVALID_PACKET_LENGTH), files |-> kf]
    ELSE
      LET den == ToInt8(payload[33])
          ks == payload[166]
          kl == payload[167]
      IN
      IF ks + kl > 128
      THEN [ci |-> Status(c, ERROR_INVALID_KEY_START), files |-> kf]
      ELSE
        LET key_path == KeyPath(SubSeq(payload, 1, 16))
            old == IF kf[key_path].exists THEN kf[key_path].bytes ELSE <<>>
            file(bytes) == [kf EXCEPT ![key_path] = [exists |-> TRUE, bytes |-> bytes]]
            w1 == WriteAt(old, 0, << ToUint8(den) >>)
            w2 == WriteAt(w1, 1, SubSeq(payload, 34, 37))
            w3 == WriteAt(w2, 5, SubSeq(payload, 38 + ks, 37 + ks + kl))
        IN
        IF io = "open"
        THEN [ci |-> Status(c, ERROR_FILESYSTEM), files |-> kf]
        ELSE IF io = "den"
        THEN [ci |-> Status(c, ERROR_FILESYSTEM), files |-> file(old)]
        ELSE IF io = "sn"
        THEN [ci |-> Status(c, ERROR_FILESYSTEM), files |-> file(w1)]
        ELSE IF io = "key"
        THEN [ci |-> Status(c, ERROR_FILESYSTEM), files |-> file(w2)]
        ELSE [ci |-> Status(c, STATUS_SUCCESS), files |-> file(w3)]

\* cmd_post_key: the context and the key files afterwards.  io names the call
\* that fails: "open", "den", "sn", "key", or "ok" for none.
cmd_post_key(c, kf, io) ==
    LET payload == c.body IN
    IF c.body_size # 185
    THEN [ci |-> Status(c, ERROR_INVALID_PACKET_LENGTH), files |-> kf]
    ELSE
      LET den == ToInt8(payload[33])
          ks == payload[166]
          kl == payload[167]
      IN
      IF ks + kl > 127
      THEN [ci |-> Status(c, ERROR_INVALID_KEY_START), files |-> kf]
      ELSE
        LET key_path == KeyPath(SubSeq(payload, 1, 16))
            old == IF kf[key_path].exists THEN kf[key_path].bytes ELSE <<>>
            file(bytes) == [kf EXCEPT ![key_path] = [exists |-> TRUE, bytes |-> bytes]]
            w1 == WriteAt(old, 0, << ToUint8(den) >>)
            w2 == WriteAt(w1, 1, SubSeq(payload, 34, 37))
            w3 == WriteAt(w2, 5, SubSeq(payload, 38 + ks, 37 + ks + kl))
        IN
        IF io = "open"
        THEN [ci |-> Status(c, ERROR_FILESYSTEM), files |-> kf]
        ELSE IF io = "den"
        THEN [ci |-> Status(c, ERROR_FILESYSTEM), files |-> file(old)]
        ELSE IF io = "sn"
        THEN [ci |-> Status(c, ERROR_FILESYSTEM), files |-> file(w1)]
        ELSE IF io = "key"
        THEN [ci |-> Status(c, ERROR_FILESYSTEM), files |-> file(w2)]
        ELSE [ci |-> Status(c, STATUS_SUCCESS), files |-> file(w3)]

\* cmd_get_key with O_TRUNC among the open flags: the file is emptied before
\* it is read.
cmd_get_key_truncating(c, kf, io, malloc_ok) ==
    LET payload == c.body IN
    IF c.body_size # 55
    THEN [ci |-> Status(c, ERROR_INVALID_PACKET_LENGTH), files |-> kf]
    ELSE
      LET key_path == KeyPath(SubSeq(payload, 1, 16))
          old == <<>>
          opened == [kf EXCEPT ![key_path] = [exists |-> TRUE, bytes |-> old]]
          rv == IF Len(old) > 512 THEN 512 ELSE Len(old)
      IN
      IF io = "open"
      THEN [ci |-> Status(c, ERROR_FILESYSTEM), files |-> kf]
      ELSE IF io = "read"
      THEN [ci |-> Status(c, ERROR_FILESYSTEM), files |-> opened]
      ELSE IF ~malloc_ok
      THEN [ci |-> Status(c, ERROR_MEMORY_ALLOC), files |-> opened]
      ELSE [ci |-> [c EXCEPT !.command_status = STATUS_SUCCESS,
                             !.output_null = FALSE,
                             !.output_size = rv,
                             !.output = SubSeq(old, 1, rv)],
            files |-> opened]

\* cmd_get_key: the context and the key files afterwards.  io names the call
\* that fails: "open", "read", or "ok" for none.
cmd_get_key(c, kf, io, malloc_ok) ==
    LET payload == c.body IN
    IF c.body_size # 55
    THEN [ci |-> Status(c, ERROR_INVALID_PACKET_LENGTH), files |-> kf]
    ELSE
      LET key_path == KeyPath(SubSeq(payload, 1, 16))
          old == IF kf[key_path].exists THEN kf[key_path].bytes ELSE <<>>
          opened == [kf EXCEPT ![key_path] = [exists |-> TRUE, bytes |-> old]]
          rv == IF Len(old) > 512 THEN 512 ELSE Len(old)
      IN
      IF io = "open"
      THEN [ci |-> Status(c, ERROR_FILESYSTEM), files |-> kf]
      ELSE IF io = "read"
      THEN [ci |-> Status(c, ERROR_FILESYSTEM), files |-> opened]
      ELSE IF ~malloc_ok
      THEN [ci |-> Status(c, ERROR_MEMORY_ALLOC), files |-> opened]
      ELSE [ci |-> [c EXCEPT !.command_status = STATUS_SUCCESS,
                             !.output_null = FALSE,
                             !.output_size = rv,
                             !.output = SubSeq(old, 1, rv)],
            files |-> opened]

\* cmd_key_alert: two log lines
cmd_key_alert(c) == c

(***************************************************************************)
(* Requests to the coin commands.                                          *)
(***************************************************************************)
\* a coin file of 440 bytes: the coin id in bytes 2..3, the secrets from byte 40
CoinFileBytes(coin_id, seed) ==
    [j \in 1..440 |-> IF j = 3 THEN coin_id \div 256
                      ELSE IF j = 4 THEN coin_id % 256
                      ELSE ((j - 1) * seed + 7) % 256]

\* the coin files of the server: a good one, one of another coin id, a short
\* one; << 1, 103 >> has none
ServerCoinFiles ==
    [p \in CoinPaths |->
        IF p = CoinPath(1, 100) THEN [exists |-> TRUE, bytes |-> CoinFileBytes(1, 5)]
        ELSE IF p = CoinPath(1, 101) THEN [exists |-> TRUE, bytes |-> CoinFileBytes(2, 5)]
        ELSE IF p = CoinPath(1, 102)
        THEN [exists |-> TRUE, bytes |-> SubSeq(CoinFileBytes(1, 5), 1, 439)]
        ELSE NoFile]

\* the secrets of coin << 1, 100 >>
ServerAens == SubSeq(CoinFileBytes(1, 5), 41, 440)

\* the eight bytes a peer sends as a half of the new secret
Half == [j \in 1..8 |-> 160 + j]

\* a key block: the 16 bytes of cmd_encrypt_key under a secret and the nonce
KeyBlock(aen, den, sn0, plain_den, plain_sn0, last) ==
    crypt_ctr(aen, Half \o << plain_den, plain_sn0, 0, 0, 0, 18, 52, last >>, 16, TestNonce)

\* a coin block of 26 bytes
CoinBlock(split_id, da, den, sn0, ky) ==
    << 0, 0, split_id, da, 0, den, sn0, 0, 0, 0 >> \o ky

\* a block a peer da made for coin (den, sn0), under the secret of peer da
PeerBlock(split_id, da, den, sn0) ==
    CoinBlock(split_id, da, den, sn0,
              KeyBlock(decrypt_raida_key_aen_of_peer(ServerAens, da), den, sn0, den, sn0, 255))

\* a block under the 16 bytes from byte da of the table
ShiftedBlock(split_id, da, den, sn0) ==
    CoinBlock(split_id, da, den, sn0,
              KeyBlock(decrypt_raida_key_aen(ServerAens, da), den, sn0, den, sn0, 255))

\* a block of peer 0 whose plain text is bound to another coin, or has no 0xff
BoundBlock(den, sn0, plain_den, plain_sn0, last) ==
    CoinBlock(0, 0, den, sn0,
              KeyBlock(decrypt_raida_key_aen_of_peer(ServerAens, 0), den, sn0,
                       plain_den, plain_sn0, last))

\* a decrypt_raida_key request: den, sn, sixteen bytes, the blocks, EOF
DecryptBody(sn0, blocks) ==
    << 1, sn0, 0, 0, 0 >> \o [j \in 1..16 |-> 0] \o blocks \o EOF_MARKER

GoodBlock == PeerBlock(0, 0, 1, 1)
\* the key block of GoodBlock, sent as of peer 25
NoPeerBlock == CoinBlock(0, 25, 1, 1, SubSeq(GoodBlock, 11, 26))
WrongDenBlock == BoundBlock(1, 1, 2, 1, 255)

OneBlock ==
    { GoodBlock,
      PeerBlock(1, 0, 1, 2),                \* the second half, a coin of page 1
      PeerBlock(0, 1, 1, 1),                \* peer 1
      PeerBlock(0, 24, 1, 1),               \* peer 24
      ShiftedBlock(0, 1, 1, 1),
      NoPeerBlock,                          \* no such peer
      PeerBlock(2, 0, 1, 1),                \* no such half
      PeerBlock(0, 0, 2, 1),                \* no page of denomination 2
      PeerBlock(0, 0, 200, 1),              \* a denomination below zero
      BoundBlock(1, 1, 1, 1, 254),          \* the last byte is not 0xff
      WrongDenBlock,
      BoundBlock(1, 1, 1, 3, 255) }         \* bound to another serial number

TwoBlocks ==
    { WrongDenBlock \o GoodBlock,
      GoodBlock \o PeerBlock(1, 0, 1, 2),
      NoPeerBlock \o WrongDenBlock,
      PeerBlock(0, 0, 200, 1) \o PeerBlock(2, 0, 1, 1) }

DecryptBodies ==
    { DecryptBody(100, b) : b \in OneBlock \cup TwoBlocks }
    \cup { DecryptBody(sn0, NoPeerBlock) : sn0 \in { 101, 102, 103 } }
    \cup { SubSeq(DecryptBody(100, GoodBlock), 1, 48),
           DecryptBody(100, GoodBlock) \o << 0 >> }

\* get_mfs()
MfsValues == { 77, 201 }

\* encrypt_key requests the threads serve
ServerEncryptBodies ==
    { EncryptBody(1, 1, 0, 19), EncryptBody(1, 2, 0, 19), EncryptBody(2, 1, 0, 19),
      SubSeq(EncryptBody(1, 0, 0, 19), 1, 30) }

\* post_key: key id, sixteen bytes, den, sn, 128 bytes of key, ks, kl, the rest
Material == [j \in 1..128 |-> (j * 7 + 1) % 256]
PostBody(key_id, den, sn0, ks, kl) ==
    key_id \o [j \in 1..16 |-> 0] \o << den, sn0, 0, 0, 0 >> \o Material
    \o << ks, kl >> \o [j \in 1..16 |-> 0] \o EOF_MARKER

KeyRanges == { << 0, 8 >>, << 100, 27 >>, << 120, 8 >>, << 0, 0 >>, << 3, 2 >> }
PostBodies ==
    { PostBody(k, 1, 7, r[1], r[2]) : k \in ChatKeyIds, r \in KeyRanges }
    \cup { SubSeq(PostBody(CHOOSE k \in ChatKeyIds : TRUE, 1, 7, 0, 8), 1, 184) }

\* get_key: key id, den, sn, the rest
GetBody(key_id, den, sn0) ==
    key_id \o << den, sn0, 0, 0, 0 >> \o [j \in 1..32 |-> 0] \o EOF_MARKER
GetBodies ==
    { GetBody(k, 1, 7) : k \in ChatKeyIds }
    \cup { SubSeq(GetBody(CHOOSE k \in ChatKeyIds : TRUE, 1, 7), 1, 54) }

\* a request as a client sends it, with what the server's environment does
\* while it is handled: get_mfs(), the call that fails, malloc
Request(cmd, body, mfs, io, malloc_ok) ==
    [cmd |-> cmd, body |-> body, mfs |-> mfs, io |-> io, malloc_ok |-> malloc_ok]

DecryptRequests ==
    { Request("cmd_decrypt_raida_key", body, 77, "ok", TRUE) : body \in DecryptBodies }
    \cup { Request("cmd_decrypt_raida_key", DecryptBody(100, GoodBlock), 201, "ok", ok) :
             ok \in BOOLEAN }
    \cup { Request("cmd_decrypt_raida_key",
                   DecryptBody(100, GoodBlock \o PeerBlock(1, 0, 1, 2)), 201, "ok", TRUE) }

EncryptRequests ==
    { Request("cmd_encrypt_key", body, 0, "ok", TRUE) : body \in ServerEncryptBodies }
    \cup { Request("cmd_encrypt_key", EncryptBody(1, 1, 0, 19), 0, "ok", FALSE) }

PostRequests ==
    { Request("cmd_post_key", body, 0, "ok", TRUE) : body \in PostBodies }
    \cup { Request("cmd_post_key", PostBody(CHOOSE k \in ChatKeyIds : TRUE, 1, 7, 0, 8),
                   0, io, TRUE) : io \in { "open", "den", "sn", "key" } }

GetRequests ==
    { Request("cmd_get_key", body, 0, "ok", ok) : body \in GetBodies, ok \in BOOLEAN }
    \cup { Request("cmd_get_key", GetBody(CHOOSE k \in ChatKeyIds : TRUE, 1, 7), 0, io, TRUE) :
             io \in { "open", "read" } }

AlertRequests ==
    { Request("cmd_key_alert", body, 0, "ok", TRUE) : body \in { <<>>, EOF_MARKER } }

Requests ==
    DecryptRequests \cup EncryptRequests \cup PostRequests \cup GetRequests
    \cup AlertRequests

\* what the clients of a server send: RKE commands, or two requests to the
\* coin commands that they may send again
Workloads ==
    { [family |-> "rke", requests |-> {}] }
    \cup { [family |-> "coin", requests |-> { a, b }] : a \in Requests, b \in Requests }

(***************************************************************************)
(* The server: worker threads take requests and run the handlers.          *)
(***************************************************************************)
\* what a coin command leaves alone
rkeState == << fragment_storage, fragment_count, frag_files, meta_files, args,
               produced, generated, faulty >>

Stepped(w, name) == [NoCall EXCEPT !.op = name, !.arg = << w >>]

\* the name of the step thread t has just made: the command when it returned
StepName(t, name) == IF t.pc = "idle" THEN t.cmd ELSE name

\* a request goes to the first idle thread
Dispatch(w) ==
    /\ threads[w].pc = "idle"
    /\ \A v \in Workers : v < w => threads[v].pc # "idle"

\* a thread takes a decrypt_raida_key request and runs it up to its first lock
DecryptBegin(w) ==
    /\ nops < MaxOps
    /\ Dispatch(w)
    /\ \E rq \in args.requests :
        /\ rq.cmd = "cmd_decrypt_raida_key"
        /\ \E t \in { decrypt_raida_key_begin(threads[w], ConnInfo(rq.body), rq.mfs,
                                              rq.malloc_ok, coin_files) } :
            /\ threads' = [threads EXCEPT ![w] = t]
            /\ ci' = IF t.pc = "idle" THEN t.c ELSE ci
            /\ call' = Stepped(w, StepName(t, "begin"))
    /\ nops' = nops + 1
    /\ UNCHANGED << rkeState, pages, coin_files, key_files, recursive >>

\* the thread gets the page lock of its block and checks the key block
DecryptVerify(w) ==
    /\ threads[w].pc = "lock1"
    /\ LET wanted == WantedPage(threads[w], pages) IN
         IF wanted.null THEN TRUE
         ELSE CanLock(pages, wanted.key, threads[w].held, recursive)
    /\ \E r \in { decrypt_raida_key_verify(threads[w], pages) } :
        /\ threads' = [threads EXCEPT ![w] = r.t]
        /\ pages' = r.pages
        /\ ci' = IF r.t.pc = "idle" THEN r.t.c ELSE ci
        /\ call' = Stepped(w, StepName(r.t, "verify"))
    /\ UNCHANGED << rkeState, nops, coin_files, key_files, recursive >>

\* the thread gets the page lock again and writes the record
DecryptCommit(w) ==
    /\ threads[w].pc = "lock2"
    /\ LET wanted == WantedPage(threads[w], pages) IN
         IF wanted.null THEN TRUE
         ELSE CanLock(pages, wanted.key, threads[w].held, recursive)
    /\ \E r \in { decrypt_raida_key_commit(threads[w], pages) } :
        /\ threads' = [threads EXCEPT ![w] = r.t]
        /\ pages' = r.pages
        /\ ci' = IF r.t.pc = "idle" THEN r.t.c ELSE ci
        /\ call' = Stepped(w, StepName(r.t, "commit"))
    /\ UNCHANGED << rkeState, nops, coin_files, key_files, recursive >>

\* a thread takes an encrypt_key request; rand() gives 4660
EncryptBegin(w) ==
    /\ nops < MaxOps
    /\ Dispatch(w)
    /\ \E rq \in args.requests :
        /\ rq.cmd = "cmd_encrypt_key"
        /\ \E t \in { encrypt_key_begin(threads[w], ConnInfo(rq.body), 4660, rq.malloc_ok,
                                        pages) } :
            /\ threads' = [threads EXCEPT ![w] = t]
            /\ ci' = IF t.pc = "idle" THEN t.c ELSE ci
            /\ call' = Stepped(w, StepName(t, "begin"))
    /\ nops' = nops + 1
    /\ UNCHANGED << rkeState, pages, coin_files, key_files, recursive >>

\* the thread gets the page lock, copies the secret, unlocks and finishes
EncryptLocked(w) ==
    /\ threads[w].pc = "enc_lock"
    /\ LET wanted == EncryptPage(threads[w], pages) IN
         IF wanted.null THEN TRUE
         ELSE CanLock(pages, wanted.key, threads[w].held, recursive)
    /\ \E t \in { encrypt_key_locked(threads[w], pages) } :
        /\ threads' = [threads EXCEPT ![w] = t]
        /\ ci' = t.c
        /\ call' = Stepped(w, t.cmd)
    /\ UNCHANGED << rkeState, nops, pages, coin_files, key_files, recursive >>

CmdPostKey ==
    /\ nops < MaxOps
    /\ \E rq \in args.requests :
        /\ rq.cmd = "cmd_post_key"
        /\ \E r \in { cmd_post_key(ConnInfo(rq.body), key_files, rq.io) } :
            /\ ci' = r.ci
            /\ key_files' = r.files
            /\ call' = [NoCall EXCEPT !.op = "cmd_post_key"]
    /\ nops' = nops + 1
    /\ UNCHANGED << rkeState, pages, threads, coin_files, recursive >>

CmdGetKey ==
    /\ nops < MaxOps
    /\ \E rq \in args.requests :
        /\ rq.cmd = "cmd_get_key"
        /\ \E r \in { cmd_get_key(ConnInfo(rq.body), key_files, rq.io, rq.malloc_ok) } :
            /\ ci' = r.ci
            /\ key_files' = r.files
            \* the record of the call carries what its system calls did
            /\ call' = [NoCall EXCEPT !.op = "cmd_get_key",
                                       !.key = [null |-> FALSE, bytes |-> << >>,
                                                io |-> rq.io, malloc_ok |-> rq.malloc_ok]]
    /\ nops' = nops + 1
    /\ UNCHANGED << rkeState, pages, threads, coin_files, recursive >>

CmdKeyAlert ==
    /\ nops < MaxOps
    /\ \E rq \in args.requests :
        /\ rq.cmd = "cmd_key_alert"
        /\ ci' = cmd_key_alert(ConnInfo(rq.body))
        /\ call' = [NoCall EXCEPT !.op = "cmd_key_alert"]
    /\ nops' = nops + 1
    /\ UNCHANGED << rkeState, pages, threads, coin_files, key_files, recursive >>

\* the RKE commands of the same server
SrvGenerate == args.family = "rke" /\ CmdGenerate
SrvExchange == args.family = "rke" /\ CmdExchange
SrvReconstruct == args.family = "rke" /\ CmdReconstruct
SrvQuery == args.family = "rke" /\ CmdQuery

\* a server process: the coin files are in place, no key has been posted, and
\* the page locks are of one kind or the other
InitSrv ==
    /\ fragment_storage = ZeroStorage
    /\ fragment_count = 0
    /\ frag_files = NoFragFiles
    /\ meta_files = NoMetaFiles
    /\ generated = [k \in KeyIds |-> NoKey]
    /\ ci = NoRequest
    /\ call = NoCall
    /\ produced = NothingProduced
    /\ faulty = FALSE
    /\ nops = 0
    /\ args \in Workloads
    /\ pages = InitPages
    /\ threads = [w \in Workers |-> IdleThread]
    /\ coin_files = ServerCoinFiles
    /\ key_files = [p \in KeyPaths |-> NoFile]
    /\ recursive \in BOOLEAN
    /\ args.family = "rke" => ~recursive

ThreadStep(w) == DecryptVerify(w) \/ DecryptCommit(w) \/ EncryptLocked(w)

NextSrv ==
    \/ \E w \in Workers : DecryptBegin(w)
    \/ \E w \in Workers : DecryptVerify(w)
    \/ \E w \in Workers : DecryptCommit(w)
    \/ \E w \in Workers : EncryptBegin(w)
    \/ \E w \in Workers : EncryptLocked(w)
    \/ CmdPostKey
    \/ CmdGetKey
    \/ CmdKeyAlert
    \/ SrvGenerate
    \/ SrvExchange
    \/ SrvReconstruct
    \/ SrvQuery

SpecSrv == InitSrv /\ [][NextSrv]_vars

\* The threads alone, with requests for coins of one page: a block that is
\* accepted, one rejected for its binding followed by one that is accepted,
\* and an encrypt_key.
LockRequests ==
    { Request("cmd_decrypt_raida_key", DecryptBody(100, b), 77, "ok", TRUE) :
        b \in { GoodBlock, WrongDenBlock, WrongDenBlock \o GoodBlock, NoPeerBlock } }
    \cup { Request("cmd_encrypt_key", EncryptBody(1, 1, 0, 19), 0, "ok", TRUE) }

InitLock ==
    /\ InitSrv
    /\ args.family = "coin"
    /\ args.requests \subseteq LockRequests

NextLock ==
    \/ \E w \in Workers : DecryptBegin(w)
    \/ \E w \in Workers : DecryptVerify(w)
    \/ \E w \in Workers : DecryptCommit(w)
    \/ \E w \in Workers : EncryptBegin(w)
    \/ \E w \in Workers : EncryptLocked(w)

\* the scheduler lets every thread that can make a step make one
SpecLockFair ==
    InitLock /\ [][NextLock]_vars /\ \A w \in Workers : WF_vars(ThreadStep(w))

(***************************************************************************)
(* One request to a command handler of rke_protocol.c: the body and what   *)
(* the environment does are drawn when the process starts, over a fresh    *)
(* data directory or the one an earlier run left.                          *)
(***************************************************************************)
\* total_fragments and threshold bytes around the limits of cmd_rke_generate
TotalBytes == 0..MaxFragments
ThresholdBytes == 0..(MaxFragments + 1)

\* bodies of cmd_rke_generate: every (N, T), and bodies of 0, 20 and 22 bytes
ReqGenerateBodies ==
    { GenerateBody(k, n, t) : k \in { KeyA, KeyC }, n \in TotalBytes, t \in ThresholdBytes }
    \cup { SubSeq(GenerateBody(KeyA, 2, 2), 1, len) : len \in { 0, 20 } }
    \cup { GenerateBody(KeyA, 2, 2) \o << 0 >> }

\* bodies of cmd_rke_query and cmd_rke_reconstruct: 18 bytes, and 0, 17, 19
ReqKeyBodies ==
    { k \o EOF_MARKER : k \in KeyIds }
    \cup { SubSeq(KeyA \o EOF_MARKER, 1, len) : len \in { 0, 17 } }
    \cup { KeyA \o EOF_MARKER \o << 0 >> }

\* bodies of cmd_rke_exchange: 19 bytes, and 0, 18, 20
ReqExchangeBodies ==
    { k \o << id >> \o EOF_MARKER : k \in { KeyA, KeyC }, id \in Uint8 }
    \cup { SubSeq(KeyA \o << 1 >> \o EOF_MARKER, 1, len) : len \in { 0, 18 } }
    \cup { KeyA \o << 1 >> \o EOF_MARKER \o << 0 >> }

\* what fails while the request is handled
ReqFailures == { "none", "key", "mask", "io", "malloc" }

\* the environment of a cmd_rke_generate for total fragments
ReqEnv(fails, seed, total) ==
    GenerateEnv(IF fails = "key" THEN [ok |-> FALSE, bytes |-> <<>>]
                ELSE [ok |-> TRUE, bytes |-> [i \in 1..MaxKeySize |-> (seed * i) % 256]],
                IF fails = "mask" THEN FailsAt2(total) ELSE AllOk(total),
                fails # "io",
                fails # "malloc")

RequestTo(cmd, body, fails, seed) ==
    [cmd |-> cmd, body |-> body, fails |-> fails, seed |-> seed, done |-> FALSE]

RkeRequests ==
    { RequestTo("cmd_rke_generate", b, f, s) :
        b \in ReqGenerateBodies, f \in ReqFailures, s \in RandSeeds }
    \cup { RequestTo(c, b, f, 60) :
             c \in { "cmd_rke_query", "cmd_rke_reconstruct" }, b \in ReqKeyBodies,
             f \in { "none", "malloc" } }
    \cup { RequestTo("cmd_rke_exchange", b, f, 60) :
             b \in ReqExchangeBodies, f \in { "none", "malloc" } }

InitReq ==
    /\ fragment_storage = ZeroStorage
    /\ fragment_count = 0
    /\ ci = NoRequest
    /\ call = NoCall
    /\ produced = NothingProduced
    /\ faulty = FALSE
    /\ nops = 0
    /\ pages = InitPages
    /\ InitSrvIdle
    /\ args \in RkeRequests
    /\ \E dir \in { FreshDirectory, EarlierRun } :
         /\ frag_files = dir.frag_files
         /\ meta_files = dir.meta_files
         /\ generated = dir.generated

\* the request is handled by cmd_rke_generate
ReqGenerate ==
    /\ args.cmd = "cmd_rke_generate"
    /\ ~args.done
    /\ \E r \in { cmd_rke_generate(ConnInfo(args.body),
                                   ReqEnv(args.fails, args.seed,
                                          IF Len(args.body) = 21 THEN args.body[18] ELSE 0),
                                   fragment_storage, fragment_count, meta_files) } :
         /\ ci' = r.ci
         /\ fragment_storage' = r.storage
         /\ fragment_count' = r.count
         /\ meta_files' = r.meta_files
         /\ produced' = IF r.storage = fragment_storage /\ r.count = fragment_count
                        THEN produced
                        ELSE IF r.count = 0 THEN NothingProduced
                        ELSE Produced(r.key, MaxKeySize,
                                      Metadata(SubSeq(args.body, 1, RKE_KEY_ID_SIZE),
                                               args.body[17], args.body[18], args.body[19],
                                               Now, 0, 0),
                                      r.storage)
         /\ generated' = IF r.ci.command_status = STATUS_SUCCESS
                         THEN [generated EXCEPT ![SubSeq(args.body, 1, RKE_KEY_ID_SIZE)] = r.key]
                         ELSE generated
    /\ args' = [args EXCEPT !.done = TRUE]
    /\ nops' = nops + 1
    /\ call' = [NoCall EXCEPT !.op = "cmd_rke_generate"]
    /\ UNCHANGED << frag_files, faulty, pages, srvVars >>

\* the request is handled by cmd_rke_query
ReqQuery ==
    /\ args.cmd = "cmd_rke_query"
    /\ ~args.done
    /\ ci' = cmd_rke_query(ConnInfo(args.body), args.fails # "malloc", frag_files, meta_files)
    /\ args' = [args EXCEPT !.done = TRUE]
    /\ nops' = nops + 1
    /\ call' = [NoCall EXCEPT !.op = "cmd_rke_query"]
    /\ UNCHANGED << fragment_storage, fragment_count, frag_files, meta_files, produced,
                    generated, faulty, pages, srvVars >>

\* the request is handled by cmd_rke_reconstruct
ReqReconstruct ==
    /\ args.cmd = "cmd_rke_reconstruct"
    /\ ~args.done
    /\ ci' = cmd_rke_reconstruct(ConnInfo(args.body), args.fails # "malloc",
                                 fragment_storage, fragment_count, frag_files, meta_files)
    /\ args' = [args EXCEPT !.done = TRUE]
    /\ nops' = nops + 1
    /\ call' = [NoCall EXCEPT !.op = "cmd_rke_reconstruct"]
    /\ UNCHANGED << fragment_storage, fragment_count, frag_files, meta_files, produced,
                    generated, faulty, pages, srvVars >>

\* the request is handled by cmd_rke_exchange
ReqExchange ==
    /\ args.cmd = "cmd_rke_exchange"
    /\ ~args.done
    /\ ci' = cmd_rke_exchange(ConnInfo(args.body), args.fails # "malloc", frag_files)
    /\ args' = [args EXCEPT !.done = TRUE]
    /\ nops' = nops + 1
    /\ call' = [NoCall EXCEPT !.op = "cmd_rke_exchange"]
    /\ UNCHANGED << fragment_storage, fragment_count, frag_files, meta_files, produced,
                    generated, faulty, pages, srvVars >>

NextReq == ReqGenerate \/ ReqQuery \/ ReqReconstruct \/ ReqExchange

SpecReq == InitReq /\ [][NextReq]_vars

(***************************************************************************)
(* post_key and get_key over the Keys directory, as a process finds it:    *)
(* empty, or with the file an earlier post_key left.                       *)
(***************************************************************************)
\* (ks, kl) around the limit ks + kl = 127 and around the width of a byte
KeyWindows ==
    KeyRanges \cup { << 127, 0 >>, << 0, 127 >>, << 128, 0 >>, << 0, 128 >>, << 1, 127 >>,
                     << 200, 100 >>, << 255, 255 >> }

ChatPostBodies ==
    { PostBody(k, 1, 7, r[1], r[2]) : k \in ChatKeyIds, r \in KeyWindows }
    \cup { PostBody(k, 200, 9, 3, 2) : k \in ChatKeyIds }
    \cup PostBodies

ChatRequests ==
    { Request("cmd_post_key", body, 0, "ok", TRUE) : body \in ChatPostBodies }
    \cup PostRequests \cup GetRequests

\* the key files earlier post_key calls of a client left
EarlierPosts ==
    { << >> }
    \cup { << PostBody(k, 1, 7, r[1], r[2]) >> :
             k \in ChatKeyIds, r \in { << 100, 27 >>, << 3, 2 >> } }

RECURSIVE PostAll(_, _)
PostAll(bodies, kf) ==
    IF bodies = << >> THEN kf
    ELSE PostAll(Tail(bodies), cmd_post_key(ConnInfo(Head(bodies)), kf, "ok").files)

InitChat ==
    /\ fragment_storage = ZeroStorage
    /\ fragment_count = 0
    /\ frag_files = NoFragFiles
    /\ meta_files = NoMetaFiles
    /\ generated = [k \in KeyIds |-> NoKey]
    /\ ci = NoRequest
    /\ call = NoCall
    /\ produced = NothingProduced
    /\ faulty = FALSE
    /\ nops = 0
    /\ args = [family |-> "chat", requests |-> ChatRequests]
    /\ pages = InitPages
    /\ threads = [w \in Workers |-> IdleThread]
    /\ coin_files = ServerCoinFiles
    /\ recursive = FALSE
    /\ \E earlier \in EarlierPosts :
         key_files = PostAll(earlier, [p \in KeyPaths |-> NoFile])

NextChat == CmdPostKey \/ CmdGetKey

SpecChat == InitChat /\ [][NextChat]_vars

(***************************************************************************)
(* The fragment store (rke_storage.c) as the embedding program and the     *)
(* handlers use it: fragments and metadata are stored, then looked up.     *)
(***************************************************************************)
\* the metadata records a caller stores for a key id
StoredMetadata(key_id) ==
    { Metadata(key_id, RKE_KEY_TYPE_SYMMETRIC, total, 2, Now, 0, 0) :
        total \in { 2, MaxFragments } }

InitStore ==
    /\ fragment_storage = ZeroStorage
    /\ fragment_count = 0
    /\ ci = NoRequest
    /\ call = NoCall
    /\ produced = NothingProduced
    /\ faulty = FALSE
    /\ nops = 0
    /\ args = << >>
    /\ pages = InitPages
    /\ InitSrvIdle
    /\ \E dir \in { FreshDirectory, EarlierRun } :
         /\ frag_files = dir.frag_files
         /\ meta_files = dir.meta_files
         /\ generated = dir.generated

\* what a store call leaves alone
coreState == << fragment_storage, fragment_count, args, produced, generated, faulty,
                pages, srvVars >>

\* rke_store_metadata(&metadata); the record of the call keeps the file as it
\* was before
StoreMetadata ==
    /\ nops < MaxOps
    /\ \E key_id \in KeyIds :
        \E meta \in StoredMetadata(key_id), io_ok \in BOOLEAN :
          \E r \in { rke_store_metadata(meta, meta_files, io_ok) } :
              /\ meta_files' = r.files
              /\ call' = [NoCall EXCEPT !.op = "store_metadata", !.rv = r.rv,
                                        !.arg = << meta, meta_files[MetadataPath(key_id)] >>]
    /\ nops' = nops + 1
    /\ ci' = NoRequest
    /\ UNCHANGED << frag_files, coreState >>

\* rke_load_metadata(&metadata, key_id)
LoadMetadata ==
    /\ \E key_id \in KeyIds :
        \E r \in { rke_load_metadata(key_id, meta_files) } :
          call' = [NoCall EXCEPT !.op = "load_metadata", !.rv = r.rv,
                                 !.arg = << key_id, r.rec >>]
    /\ ci' = NoRequest
    /\ UNCHANGED << nops, frag_files, meta_files, coreState >>

\* rke_load_fragment(&fragment, key_id, fragment_id)
LoadFragment ==
    /\ \E key_id \in KeyIds, fragment_id \in Uint8 :
        \E r \in { rke_load_fragment(key_id, fragment_id, frag_files) } :
          call' = [NoCall EXCEPT !.op = "load_fragment", !.rv = r.rv,
                                 !.arg = << key_id, fragment_id, r.rec >>]
    /\ ci' = NoRequest
    /\ UNCHANGED << nops, frag_files, meta_files, coreState >>

\* rke_fragment_exists(key_id, fragment_id)
FragmentExists ==
    /\ \E key_id \in KeyIds, fragment_id \in Uint8 :
          call' = [NoCall EXCEPT !.op = "fragment_exists",
                                 !.rv = IF rke_fragment_exists(key_id, fragment_id, frag_files)
                                        THEN 1 ELSE 0,
                                 !.arg = << key_id, fragment_id >>]
    /\ ci' = NoRequest
    /\ UNCHANGED << nops, frag_files, meta_files, coreState >>

\* rke_count_fragments(key_id)
CountFragments ==
    /\ \E key_id \in KeyIds :
          call' = [NoCall EXCEPT !.op = "count_fragments",
                                 !.rv = rke_count_fragments(key_id, frag_files),
                                 !.arg = << key_id >>]
    /\ ci' = NoRequest
    /\ UNCHANGED << nops, frag_files, meta_files, coreState >>

\* cmd_rke_query for a key id
QueryKey ==
    /\ \E key_id \in KeyIds :
        /\ ci' = cmd_rke_query(ConnInfo(key_id \o EOF_MARKER), TRUE, frag_files, meta_files)
        /\ call' = [NoCall EXCEPT !.op = "cmd_rke_query", !.arg = << key_id >>]
    /\ UNCHANGED << nops, frag_files, meta_files, coreState >>

\* cmd_rke_exchange for a key id and a fragment id
ExchangeFragment ==
    /\ \E key_id \in KeyIds, fragment_id \in Uint8 :
        /\ ci' = cmd_rke_exchange(ConnInfo(key_id \o << fragment_id >> \o EOF_MARKER), TRUE,
                                  frag_files)
        /\ call' = [NoCall EXCEPT !.op = "cmd_rke_exchange",
                                  !.arg = << key_id, fragment_id >>]
    /\ UNCHANGED << nops, frag_files, meta_files, coreState >>

NextStore ==
    \/ StoreFragment
    \/ StoreMetadata
    \/ LoadMetadata
    \/ LoadFragment
    \/ FragmentExists
    \/ CountFragments
    \/ QueryKey
    \/ ExchangeFragment

SpecStore == InitStore /\ [][NextStore]_vars

(***************************************************************************)
(* Two executions over the splitter's file-scope state.  The command       *)
(* handlers run on worker threads and rke_split_key / rke_reconstruct_key  *)
(* take no lock, so the statements of two executions interleave on         *)
(* fragment_storage and fragment_count.  A step is one statement group of  *)
(* rke_core.c; the locals of an execution are in args.runs.                *)
(***************************************************************************)
Runs == 1..2

\* the key an execution splits, and the key id of its metadata
RunKey(p) == [i \in 1..MaxKeySize |-> ((IF p = 1 THEN 170 ELSE 1) * i) % 256]
RunKeyId(p) == IF p = 1 THEN KeyA ELSE KeyC

\* the locals of one execution: its arguments, where it is, the loop variable
\* frag_id, the status it returned and the key buffer of its reconstruct
RunOf(p, total) ==
    [key |-> RunKey(p), key_size |-> MaxKeySize,
     meta |-> Metadata(RunKeyId(p), RKE_KEY_TYPE_SYMMETRIC, total, RKE_MIN_THRESHOLD, 12345, 0, p),
     pc |-> "start", frag_id |-> 0, rv |-> 0, out |-> Zeros(MaxKeySize)]

InitRuns ==
    /\ fragment_storage = ZeroStorage
    /\ fragment_count = 0
    /\ ci = NoRequest
    /\ call = NoCall
    /\ produced = NothingProduced
    /\ faulty = FALSE
    /\ nops = 0
    /\ pages = InitPages
    /\ InitSrvIdle
    /\ frag_files = FreshDirectory.frag_files
    /\ meta_files = FreshDirectory.meta_files
    /\ generated = FreshDirectory.generated
    /\ \E t1 \in { RKE_MIN_THRESHOLD, MaxFragments }, t2 \in { RKE_MIN_THRESHOLD, MaxFragments } :
         args = [family |-> "runs", runs |-> << RunOf(1, t1), RunOf(2, t2) >>]

\* what a step of an execution leaves alone
outsideRuns == << frag_files, meta_files, ci, produced, generated, faulty, nops, pages,
                  srvVars >>

\* the step of execution p: its locals afterwards
Moved(p, r, op) ==
    /\ args' = [args EXCEPT !.runs[p] = r]
    /\ call' = [NoCall EXCEPT !.op = op, !.rv = r.rv, !.arg = << p >>]
    /\ UNCHANGED outsideRuns

\* rke_split_key, lines 65-88: the parameters are valid; fragment_count = 0
\* and the memset of fragment_storage
SplitClear(p) ==
    LET r == args.runs[p] IN
    /\ r.pc = "start"
    /\ fragment_count' = 0
    /\ fragment_storage' = ZeroStorage
    /\ Moved(p, [r EXCEPT !.pc = "loop", !.frag_id = 1], "rke_split_key")

\* lines 92-110: the header and the data of fragment frag_id: the key for the
\* first fragment, a random mask for the others
SplitFill(p) ==
    LET r == args.runs[p]
        hdr == Fragment(r.frag_id, r.meta.total_fragments, r.meta.threshold, r.key_size,
                        Zeros(MaxKeySize), fragment_storage[r.frag_id].checksum)
    IN
    /\ r.pc = "loop"
    /\ r.frag_id <= r.meta.total_fragments
    /\ UNCHANGED fragment_count
    /\ IF r.frag_id = 1
       THEN /\ fragment_storage' = [fragment_storage EXCEPT
                                      ![1] = [hdr EXCEPT !.data = Memcpy(hdr.data, r.key,
                                                                         r.key_size)]]
            /\ Moved(p, [r EXCEPT !.frag_id = 2], "rke_split_key")
       ELSE \E rnd \in secure_random_bytes(r.key_size) :
              IF ~rnd.ok
              THEN /\ fragment_storage' = [fragment_storage EXCEPT ![r.frag_id] = hdr]
                   /\ Moved(p, [r EXCEPT !.pc = "ended", !.rv = RKE_ERROR_CRYPTO_FAIL],
                            "rke_split_key")
              ELSE /\ fragment_storage' =
                        [fragment_storage EXCEPT
                           ![r.frag_id] = [hdr EXCEPT !.data = Memcpy(hdr.data, rnd.bytes,
                                                                      r.key_size)]]
                   /\ Moved(p, [r EXCEPT !.pc = "xor"], "rke_split_key")

\* lines 112-116: fragment_storage[0].data[i] ^= fragment->data[i]
SplitXor(p) ==
    LET r == args.runs[p] IN
    /\ r.pc = "xor"
    /\ UNCHANGED fragment_count
    /\ fragment_storage' =
         [fragment_storage EXCEPT
            ![1].data = XorInto(fragment_storage[1].data, fragment_storage[r.frag_id].data,
                                r.key_size)]
    /\ Moved(p, [r EXCEPT !.pc = "loop", !.frag_id = r.frag_id + 1], "rke_split_key")

\* line 119: fragment_count = metadata->total_fragments
SplitCount(p) ==
    LET r == args.runs[p] IN
    /\ r.pc = "loop"
    /\ r.frag_id > r.meta.total_fragments
    /\ fragment_count' = r.meta.total_fragments
    /\ UNCHANGED fragment_storage
    /\ Moved(p, [r EXCEPT !.pc = "sums"], "rke_split_key")

\* lines 121-130: the checksums of fragments 1..total, then RKE_SUCCESS
SplitSums(p) ==
    LET r == args.runs[p] IN
    /\ r.pc = "sums"
    /\ UNCHANGED fragment_count
    /\ fragment_storage' = SplitChecksums(fragment_storage, r.meta.total_fragments)
    /\ Moved(p, [r EXCEPT !.pc = "split_done", !.rv = RKE_SUCCESS], "rke_split_key")

\* rke_reconstruct_key with the execution's own metadata, lines 164-185: the
\* count check and the integrity check of the first threshold fragments
ReconVerify(p) ==
    LET r == args.runs[p] IN
    /\ r.pc = "split_done"
    /\ UNCHANGED << fragment_storage, fragment_count >>
    /\ IF fragment_count < r.meta.threshold
       THEN Moved(p, [r EXCEPT !.pc = "ended", !.rv = RKE_ERROR_INSUFFICIENT_FRAGMENTS],
                  "rke_reconstruct_key")
       ELSE IF \E i \in 0..(r.meta.threshold - 1) :
                  rke_verify_checksum(fragment_storage[i + 1]) # RKE_SUCCESS
       THEN Moved(p, [r EXCEPT !.pc = "ended", !.rv = RKE_ERROR_FRAGMENT_CORRUPT],
                  "rke_reconstruct_key")
       ELSE Moved(p, [r EXCEPT !.pc = "recon_xor"], "rke_reconstruct_key")

\* lines 187-198: the memcpy of the first fragment and the XOR of the others
ReconXor(p) ==
    LET r == args.runs[p] IN
    /\ r.pc = "recon_xor"
    /\ UNCHANGED << fragment_storage, fragment_count >>
    /\ Moved(p, [r EXCEPT !.pc = "ended", !.rv = RKE_SUCCESS,
                          !.out = XorFragments(Memcpy(r.out, fragment_storage[1].data,
                                                      r.key_size),
                                               fragment_storage, r.key_size, 1,
                                               fragment_count)],
             "rke_reconstruct_key")

NextRuns ==
    \E p \in Runs :
       \/ SplitClear(p)
       \/ SplitFill(p)
       \/ SplitXor(p)
       \/ SplitCount(p)
       \/ SplitSums(p)
       \/ ReconVerify(p)
       \/ ReconXor(p)

SpecRuns == InitRuns /\ [][NextRuns]_vars

(***************************************************************************)
(* Sessions (rke_protocol.c, struct rke_session_t of rke.h).  The caller's *)
(* session structure is args.session.                                      *)
(***************************************************************************)
RKE_SESSION_ID_SIZE == 16
RKE_SESSION_STATE_INIT == 0
RKE_SESSION_STATE_ACTIVE == 1
RKE_SESSION_STATE_COMPLETE == 2
RKE_SESSION_STATE_EXPIRED == 3

\* struct rke_session_t
Session(sid, sender, receiver, state, timeout) ==
    [session_id |-> sid, sender_id |-> sender, receiver_id |-> receiver,
     state |-> state, timeout |-> timeout]

\* the structure after memset(session, 0, sizeof(struct rke_session_t))
ZeroSession ==
    Session(Zeros(RKE_SESSION_ID_SIZE), Zeros(RKE_KEY_ID_SIZE), Zeros(RKE_KEY_ID_SIZE), 0, 0)

\* a rke_init_session that copies the sender into both identities
rke_init_session_one_id(session, session_null, sender_id, receiver_id, rnd, now) ==
    IF session_null \/ sender_id.null \/ receiver_id.null
    THEN [rv |-> RKE_ERROR_INVALID_PARAM, session |-> session]
    ELSE IF ~rnd.ok
    THEN [rv |-> RKE_ERROR_CRYPTO_FAIL, session |-> session]
    ELSE [rv |-> RKE_SUCCESS,
          session |-> Session(rnd.bytes, sender_id.bytes, sender_id.bytes,
                              RKE_SESSION_STATE_INIT, now + 3600)]

\* rke_init_session: status and the caller's structure afterwards.  rnd is
\* what secure_random_bytes delivers, now is time(NULL); the timeout is a
\* uint32_t and the times of the model are far below its range.
rke_init_session(session, session_null, sender_id, receiver_id, rnd, now) ==
    IF session_null \/ sender_id.null \/ receiver_id.null
    THEN [rv |-> RKE_ERROR_INVALID_PARAM, session |-> session]
    ELSE IF ~rnd.ok
    THEN [rv |-> RKE_ERROR_CRYPTO_FAIL, session |-> session]
    ELSE [rv |-> RKE_SUCCESS,
          session |-> Session(rnd.bytes, sender_id.bytes, receiver_id.bytes,
                              RKE_SESSION_STATE_INIT, now + 3600)]

\* rke_cleanup_session
rke_cleanup_session(session, session_null) ==
    IF session_null THEN session ELSE ZeroSession

\* what the caller's structure holds before the first call: zeroes, or what
\* was in that memory
StartSessions ==
    { ZeroSession,
      Session([i \in 1..RKE_SESSION_ID_SIZE |-> 204], [i \in 1..RKE_KEY_ID_SIZE |-> 204],
              [i \in 1..RKE_KEY_ID_SIZE |-> 204], RKE_SESSION_STATE_EXPIRED, 204) }

\* the identities of the callers, and a NULL pointer
Identities == { KeyBuf(k) : k \in KeyIds } \cup { NullKey }

\* time(NULL) at the calls
SessionTimes == { Now, Now + 1 }

InitSession ==
    /\ fragment_storage = ZeroStorage
    /\ fragment_count = 0
    /\ ci = NoRequest
    /\ call = NoCall
    /\ produced = NothingProduced
    /\ faulty = FALSE
    /\ nops = 0
    /\ pages = InitPages
    /\ InitSrvIdle
    /\ frag_files = FreshDirectory.frag_files
    /\ meta_files = FreshDirectory.meta_files
    /\ generated = FreshDirectory.generated
    /\ \E s \in StartSessions : args = [family |-> "session", session |-> s]

outsideSession == << fragment_storage, fragment_count, frag_files, meta_files, ci, produced,
                     generated, faulty, nops, pages, srvVars >>

\* rke_init_session(&session, sender_id, receiver_id), or with a NULL session
ApiInitSession ==
    /\ \E session_null \in BOOLEAN, sender_id \in Identities, receiver_id \in Identities,
          rnd \in secure_random_bytes(RKE_SESSION_ID_SIZE), now \in SessionTimes :
         \E r \in { rke_init_session(args.session, session_null, sender_id, receiver_id,
                                     rnd, now) } :
            /\ args' = [args EXCEPT !.session = r.session]
            /\ call' = [NoCall EXCEPT !.op = "rke_init_session", !.rv = r.rv,
                                      !.arg = << session_null, sender_id, receiver_id,
                                                 rnd.ok, now >>]
    /\ UNCHANGED outsideSession

\* rke_cleanup_session(&session), or with NULL
ApiCleanupSession ==
    /\ \E session_null \in BOOLEAN :
         /\ args' = [args EXCEPT !.session = rke_cleanup_session(args.session, session_null)]
         /\ call' = [NoCall EXCEPT !.op = "rke_cleanup_session", !.arg = << session_null >>]
    /\ UNCHANGED outsideSession

NextSession == ApiInitSession \/ ApiCleanupSession

SpecSession == InitSession /\ [][NextSession]_vars

(***************************************************************************)
(* rke_validate_fragment applied to the headers a caller can pass.         *)
(***************************************************************************)
\* header fields around the limits: ids and thresholds up to one above the
\* largest total, sizes up to one above RKE_FRAGMENT_DATA_SIZE
HeaderFragments ==
    { Fragment(id, total, thr, size, Zeros(MaxKeySize), ZeroChecksum) :
        id \in 0..(MaxFragments + 1), total \in 0..MaxFragments,
        thr \in 0..(MaxFragments + 1), size \in 0..(MaxKeySize + 1) }

InitValidate ==
    /\ fragment_storage = ZeroStorage
    /\ fragment_count = 0
    /\ ci = NoRequest
    /\ call = NoCall
    /\ produced = NothingProduced
    /\ faulty = FALSE
    /\ nops = 0
    /\ pages = InitPages
    /\ InitSrvIdle
    /\ frag_files = FreshDirectory.frag_files
    /\ meta_files = FreshDirectory.meta_files
    /\ generated = FreshDirectory.generated
    /\ \E f \in HeaderFragments, is_null \in BOOLEAN :
         args = [family |-> "validate", fragment |-> f, null |-> is_null]

\* rke_validate_fragment(&fragment), or rke_validate_fragment(NULL)
ApiValidateFragment ==
    /\ call.op = "none"
    /\ call' = [NoCall EXCEPT !.op = "rke_validate_fragment",
                              !.rv = IF args.null THEN RKE_ERROR_INVALID_PARAM
                                     ELSE rke_validate_fragment(args.fragment)]
    /\ UNCHANGED << fragment_storage, fragment_count, frag_files, meta_files, ci, args,
                    produced, generated, faulty, nops, pages, srvVars >>

NextValidate == ApiValidateFragment

SpecValidate == InitValidate /\ [][NextValidate]_vars

(***************************************************************************)
(* Fragment files written by rke_store_fragment and read back, over        *)
(* directories that hold what earlier runs or other programs left.         *)
(***************************************************************************)
\* the directory of an earlier run after two of KeyA's files were changed
\* from outside: fragment_001.bin holds the record of fragment 2, and
\* fragment_002.bin a record whose threshold exceeds its total
TamperedRun ==
    [frag_files |->
        [EarlierRun.frag_files EXCEPT
           ![FragmentPath(KeyA, 1)] = FileOf(PeerSplit(KeyA)[2]),
           ![FragmentPath(KeyA, 2)] =
               FileOf([PeerSplit(KeyA)[2] EXCEPT !.threshold = MaxFragments + 1])],
     meta_files |-> EarlierRun.meta_files,
     generated  |-> EarlierRun.generated]

InitFiles ==
    /\ fragment_storage = ZeroStorage
    /\ fragment_count = 0
    /\ ci = NoRequest
    /\ call = NoCall
    /\ produced = NothingProduced
    /\ faulty = FALSE
    /\ nops = 0
    /\ args = << >>
    /\ pages = InitPages
    /\ InitSrvIdle
    /\ \E dir \in { FreshDirectory, EarlierRun, TamperedRun } :
         /\ frag_files = dir.frag_files
         /\ meta_files = dir.meta_files
         /\ generated = dir.generated

NextFiles ==
    \/ StoreFragment
    \/ LoadFragment
    \/ FragmentExists

SpecFiles == InitFiles /\ [][NextFiles]_vars

(***************************************************************************)
(* decrypt_raida_key requests under a stamp source that moves on: what     *)
(* get_mfs() returns is args.clock, and it never decreases.                *)
(***************************************************************************)
\* the stamp bytes of the records of a page
StampsOf(pg, k) == { pg[k].data[r * 17 + 17] : r \in 0..(RECORDS_PER_PAGE - 1) }

\* the stamp source when the server starts: the largest stamp any record
\* carries, since the records were stamped from the same source
FirstStamp ==
    CHOOSE m \in UNION { StampsOf(InitPages, k) : k \in PageKeys } :
      \A k \in PageKeys : \A s \in StampsOf(InitPages, k) : s <= m

\* requests for the two halves of one coin, one after a rejected block, and
\* for a coin of another page
StampBodies ==
    { DecryptBody(100, b) :
        b \in { GoodBlock, PeerBlock(1, 0, 1, 1), WrongDenBlock \o GoodBlock,
                PeerBlock(1, 0, 1, 2) } }

InitStamp ==
    /\ fragment_storage = ZeroStorage
    /\ fragment_count = 0
    /\ frag_files = NoFragFiles
    /\ meta_files = NoMetaFiles
    /\ generated = [k \in KeyIds |-> NoKey]
    /\ ci = NoRequest
    /\ call = NoCall
    /\ produced = NothingProduced
    /\ faulty = FALSE
    /\ nops = 0
    /\ args = [family |-> "coin", requests |-> StampBodies, clock |-> FirstStamp]
    /\ pages = InitPages
    /\ threads = [w \in Workers |-> IdleThread]
    /\ coin_files = ServerCoinFiles
    /\ key_files = [p \in KeyPaths |-> NoFile]
    /\ recursive \in BOOLEAN

\* time passes: get_mfs() returns the next value from now on
Tick ==
    /\ args.clock < FirstStamp + MaxOps
    /\ args' = [args EXCEPT !.clock = @ + 1]
    /\ call' = [NoCall EXCEPT !.op = "tick"]
    /\ ci' = NoRequest
    /\ UNCHANGED << fragment_storage, fragment_count, frag_files, meta_files, produced,
                    generated, faulty, nops, pages, srvVars >>

\* a thread takes a decrypt_raida_key request: get_mfs() is called once, here
StampBegin(w) ==
    /\ nops < MaxOps
    /\ Dispatch(w)
    /\ \E body \in args.requests :
        \E t \in { decrypt_raida_key_begin(threads[w], ConnInfo(body), args.clock, TRUE,
                                           coin_files) } :
            /\ threads' = [threads EXCEPT ![w] = t]
            /\ ci' = IF t.pc = "idle" THEN t.c ELSE ci
            /\ call' = Stepped(w, StepName(t, "begin"))
    /\ nops' = nops + 1
    /\ UNCHANGED << rkeState, pages, coin_files, key_files, recursive >>

NextStamp ==
    \/ Tick
    \/ \E w \in Workers : StampBegin(w)
    \/ \E w \in Workers : DecryptVerify(w)
    \/ \E w \in Workers : DecryptCommit(w)

SpecStamp == InitStamp /\ [][NextStamp]_vars

(***************************************************************************)
(* A caller's fragment under rke_encrypt_fragment and rke_decrypt_fragment.*)
(***************************************************************************)
\* header and data of the fragments of the caller: valid ones and ones with an
\* id of 0 or above the total, a threshold above the total, a size above
\* RKE_FRAGMENT_DATA_SIZE
CryptHeaders ==
    { Fragment(id, MaxFragments, thr, size,
               [i \in 1..MaxKeySize |-> (seed * i + 11) % 256], ZeroChecksum) :
        id \in { 0, 1, MaxFragments + 1 }, thr \in { RKE_MIN_THRESHOLD, MaxFragments + 1 },
        size \in 0..(MaxKeySize + 1), seed \in { 37, 200 } }

\* each with the checksum rke_calculate_checksum gives it, and with another
CryptFragments ==
    { rke_calculate_checksum(f) : f \in { h \in CryptHeaders : h.fragment_size <= MaxKeySize } }
    \cup { [f EXCEPT !.checksum = Garbage(1)] : f \in CryptHeaders }

\* which argument of a call is NULL
NullArguments == { "none", "fragment", "key", "nonce" }

InitCrypt ==
    /\ InitIdle
    /\ call = NoCall
    /\ \E f \in CryptFragments :
         args = [family |-> "crypt", original |-> f, fragment |-> f, before |-> f,
                 ops |-> << >>]

\* rke_encrypt_fragment(&fragment, key, nonce), or with NULL for one argument
EncryptFragment ==
    /\ Len(args.ops) < MaxOps
    /\ \E key \in CtrKeys, nonce \in CtrNonces, null \in NullArguments :
        /\ null # "none" => ( key = (CHOOSE k \in CtrKeys : TRUE) /\ nonce = TestNonce )
        /\ \E r \in { rke_encrypt_fragment(args.fragment, null = "fragment", key,
                                           null = "key", nonce, null = "nonce") } :
            /\ args' = [args EXCEPT !.fragment = r.fragment, !.before = args.fragment,
                                    !.ops = Append(@, "rke_encrypt_fragment")]
            /\ call' = [NoCall EXCEPT !.op = "rke_encrypt_fragment", !.rv = r.rv,
                                      !.arg = << null, key, nonce >>]
    /\ UNCHANGED idleVars

\* what rke_decrypt_fragment leaves of a fragment whose fragment_size is above
\* the size of data: the transform and the checksum run past the array, the
\* checksum covers a byte b that is not part of data
DecryptedPastArray(f, key, nonce) ==
    { [f EXCEPT !.data = crypt_ctr(key, f.data, MaxKeySize, nonce),
                !.checksum = simple_sha256(
                    << f.fragment_id, f.total_fragments, f.threshold,
                       (f.fragment_size \div 256) % 256, f.fragment_size % 256 >>
                    \o crypt_ctr(key, f.data, MaxKeySize, nonce) \o << b >>)] :
        b \in { 0, 255 } }

\* rke_decrypt_fragment(&fragment, key, nonce), or with NULL for one argument
DecryptFragment ==
    /\ Len(args.ops) < MaxOps
    /\ \E key \in CtrKeys, nonce \in CtrNonces, null \in NullArguments :
        /\ null # "none" => ( key = (CHOOSE k \in CtrKeys : TRUE) /\ nonce = TestNonce )
        /\ \E r \in IF null = "none" /\ args.fragment.fragment_size > MaxKeySize
                    THEN { [rv |-> RKE_SUCCESS, fragment |-> g] :
                              g \in DecryptedPastArray(args.fragment, key, nonce) }
                    ELSE { rke_decrypt_fragment(args.fragment, null = "fragment", key,
                                                null = "key", nonce, null = "nonce") } :
            /\ args' = [args EXCEPT !.fragment = r.fragment, !.before = args.fragment,
                                    !.ops = Append(@, "rke_decrypt_fragment")]
            /\ call' = [NoCall EXCEPT !.op = "rke_decrypt_fragment", !.rv = r.rv,
                                      !.arg = << null, key, nonce >>]
    /\ UNCHANGED idleVars

NextCrypt == EncryptFragment \/ DecryptFragment

SpecCrypt == InitCrypt /\ [][NextCrypt]_vars

(***************************************************************************)
(* Properties of the splitter / reconstructor.                             *)
(***************************************************************************)
\* byte b of the XOR of the data of fragments 1..n
RECURSIVE XorOfData(_, _, _)
XorOfData(st, n, b) ==
    IF n = 0 THEN 0 ELSE Xor(XorOfData(st, n - 1, b), st[n].data[b])

\* the last step was a call with both pointers given
PointersGiven == ~call.key.null /\ ~call.meta_null

\* the fragments are those the last successful split left, all of them
AllFragmentsAvailable ==
    /\ produced.valid
    /\ fragment_storage = produced.storage
    /\ fragment_count = produced.meta.total_fragments

\* C1: split / reconstruct round trip.  A reconstruct called with the key size
\* and metadata of the last successful split, with all N fragments as the
\* split left them, returns success and the key that was split, byte for byte.
C1_RoundTrip ==
    ( /\ call.op = "reconstruct"
      /\ PointersGiven
      /\ AllFragmentsAvailable
      /\ args.key_size = produced.key_size
      /\ args.meta = produced.meta )
    => /\ call.rv = RKE_SUCCESS
       /\ SubSeq(call.key.bytes, 1, args.key_size) = produced.key

\* a round trip of a key over the largest number of fragments, more than the threshold
C1_Witness ==
    /\ call.op = "reconstruct"
    /\ PointersGiven
    /\ AllFragmentsAvailable
    /\ args.key_size = produced.key_size
    /\ args.meta = produced.meta
    /\ produced.meta.total_fragments = MaxFragments
    /\ produced.meta.threshold = RKE_MIN_THRESHOLD
    /\ call.rv = RKE_SUCCESS
    /\ produced.key[1] # 0

\* C2: after a successful split of a key of length L into N fragments the XOR
\* of data[0..L) over the N fragments is the key, fragment i carries
\* fragment_id = i, total_fragments = N, threshold = T and fragment_size = L,
\* and data[L..) of every fragment is zero.
C2_SplitInvariant ==
    ( /\ call.op = "split"
      /\ call.rv = RKE_SUCCESS )
    => LET N == args.meta.total_fragments
           L == args.key_size
       IN  /\ fragment_count = N
           /\ \A b \in 1..L : XorOfData(fragment_storage, N, b) = args.key[b]
           /\ \A i \in 1..N :
                /\ fragment_storage[i].fragment_id = i
                /\ fragment_storage[i].total_fragments = N
                /\ fragment_storage[i].threshold = args.meta.threshold
                /\ fragment_storage[i].fragment_size = L
                /\ \A b \in (L + 1)..MaxKeySize : fragment_storage[i].data[b] = 0

\* a successful split of a key shorter than the data array into the most fragments
C2_Witness ==
    /\ call.op = "split"
    /\ call.rv = RKE_SUCCESS
    /\ args.meta.total_fragments = MaxFragments
    /\ args.key_size < MaxKeySize
    /\ args.key[1] # 0
    /\ fragment_storage[MaxFragments].data[1] # 0

\* C5 as claimed: whenever a fragment that enters the XOR (any of the
\* fragment_count fragments) fails rke_verify_checksum, rke_reconstruct_key
\* returns FragmentCorrupt and writes no key.
C5_VerifiesEveryFragment ==
    ( /\ call.op = "reconstruct"
      /\ PointersGiven
      /\ args.key_size > 0
      /\ fragment_count >= args.meta.threshold
      /\ \E i \in 1..fragment_count :
            rke_verify_checksum(fragment_storage[i]) # RKE_SUCCESS )
    => /\ call.rv = RKE_ERROR_FRAGMENT_CORRUPT
       /\ call.key.bytes = Uninitialized


(***************************************************************************)
(* Properties of the command handlers.                                     *)
(***************************************************************************)
\* the key id of the request the context holds
RequestKeyId == SubSeq(ci.body, 1, RKE_KEY_ID_SIZE)

\* a bitmap in which exactly the bits 0..n-1 are set
RECURSIVE LowBits(_)
LowBits(n) == IF n <= 0 THEN 0 ELSE 2 * LowBits(n - 1) + 1
BitmapOfFirst(n) ==
    [b \in 1..FRAGMENT_MAP_SIZE |->
        IF n >= 8 * b THEN 255 ELSE LowBits(n - 8 * (b - 1))]

\* C3: once rke_generate has succeeded for key id K with N total fragments (its
\* metadata is what the store holds for K), a query for K that gets its output
\* buffer returns status 0 and a bitmap whose set bits are exactly 0..N-1.
C3_GenerateThenQuery ==
    ( /\ call.op = "cmd_rke_query"
      /\ ci.body_size = 18
      /\ generated[RequestKeyId] # NoKey
      /\ rke_load_metadata(RequestKeyId, meta_files).rv = RKE_SUCCESS
      /\ ci.command_status # ERROR_MEMORY_ALLOC )
    => /\ ci.command_status = STATUS_SUCCESS
       /\ SubSeq(ci.output, 2, 1 + FRAGMENT_MAP_SIZE) =
            BitmapOfFirst(rke_load_metadata(RequestKeyId, meta_files).rec.total_fragments)

\* the XOR of data[0..key_size) of the fragments the store holds for key_id
RECURSIVE XorOfStore(_, _, _, _)
XorOfStore(key_id, ff, n, key_size) ==
    IF n = 0 THEN Zeros(key_size)
    ELSE IF rke_fragment_exists(key_id, n, ff)
    THEN XorInto(XorOfStore(key_id, ff, n - 1, key_size),
                 ff[FragmentPath(key_id, n)].rec.data, key_size)
    ELSE XorOfStore(key_id, ff, n - 1, key_size)

\* C4: a successful rke_reconstruct for key id K returns the XOR of the
\* fragments the store holds for K, and not the key generated for another id.
C4_BoundToRequestedKey ==
    ( /\ call.op = "cmd_rke_reconstruct"
      /\ ci.command_status = STATUS_SUCCESS )
    => /\ ci.output = XorOfStore(RequestKeyId, frag_files, MaxFragments, MaxKeySize)
       /\ \A k2 \in KeyIds \ { RequestKeyId } :
             ( generated[k2] # NoKey /\ generated[k2] # generated[RequestKeyId] )
             => ci.output # generated[k2]

\* C6: with fewer fragments than metadata.threshold, rke_reconstruct_key
\* (called with a key buffer, a size and a metadata record) returns
\* InsufficientFragments and leaves the buffer as it was, and
\* cmd_rke_reconstruct, once it has the metadata of the key, ends with an error
\* status, no output buffer and no output size.
C6_InsufficientFragments ==
    /\ ( /\ call.op = "reconstruct" /\ PointersGiven /\ args.key_size > 0
         /\ fragment_count < args.meta.threshold )
       => /\ call.rv = RKE_ERROR_INSUFFICIENT_FRAGMENTS
          /\ call.key.bytes = Uninitialized
    /\ ( /\ call.op = "cmd_rke_reconstruct" /\ ci.body_size = 18
         /\ rke_load_metadata(RequestKeyId, meta_files).rv = RKE_SUCCESS
         /\ rke_count_fragments(RequestKeyId, frag_files)
              < rke_load_metadata(RequestKeyId, meta_files).rec.threshold )
       => /\ ci.command_status = ERROR_INVALID_PARAMETER
          /\ ci.output_null
          /\ ci.output_size = 0

\* cmd_rke_reconstruct has refused a key whose metadata asks for more fragments
\* than the store holds, in a process whose memory holds fragments of a split
C6_Witness ==
    /\ call.op = "cmd_rke_reconstruct"
    /\ rke_load_metadata(RequestKeyId, meta_files).rv = RKE_SUCCESS
    /\ rke_count_fragments(RequestKeyId, frag_files)
         < rke_load_metadata(RequestKeyId, meta_files).rec.threshold
    /\ fragment_count > 0
    /\ ci.command_status = ERROR_INVALID_PARAMETER


(***************************************************************************)
(* Properties of the checksum.                                             *)
(***************************************************************************)
\* the record the last rke_verify_checksum was given
Verified == call.arg[1]

\* C7, as stated: a fragment produced by split verifies if and only if it is
\* still, in every byte of header, data and checksum, the produced fragment.
C7_ValidIffIdentical ==
    ( call.op = "verify_checksum" /\ args.origin = "split" )
    => ( call.rv = RKE_SUCCESS <=> Verified = args.produced )

\* the bytes the checksum covers: the header fields and data[0..fragment_size)
SameContent == HashInput(Verified) = HashInput(args.produced)
SameChecksum == Verified.checksum = args.produced.checksum

\* C7, amended: relative to the fragment the checksum was computed for, a
\* record with the same header, data[0..fragment_size) and checksum verifies,
\* whatever data[fragment_size..) holds, and a record that differs in exactly
\* one of the two (the covered content, or the checksum) fails.
C7_ValidIffCoveredBytes ==
    call.op = "verify_checksum"
    => /\ ( SameContent /\ SameChecksum ) => call.rv = RKE_SUCCESS
       /\ ( SameContent # SameChecksum ) => call.rv = RKE_ERROR_FRAGMENT_CORRUPT

\* a fragment of a split verifies although a byte of it beyond fragment_size
\* is no longer the byte split left
C7_Witness ==
    /\ call.op = "verify_checksum"
    /\ args.origin = "split"
    /\ Verified # args.produced
    /\ SameContent /\ SameChecksum
    /\ call.rv = RKE_SUCCESS

\* the record differs from the one the checksum was computed for in data[i],
\* i < fragment_size, and nowhere else
OneDataByteChanged(f, p) ==
    \E i \in 1..p.fragment_size :
        /\ f.data[i] # p.data[i]
        /\ f = [p EXCEPT !.data[i] = f.data[i]]

\* C8: with a checksum computed by rke_calculate_checksum, a change of one
\* byte of data[0..fragment_size) makes rke_verify_checksum return
\* FragmentCorrupt, the byte put back makes it succeed again, and the call
\* leaves the fragment as it was.
C8_CorruptionDetected ==
    call.op = "verify_checksum"
    => /\ OneDataByteChanged(Verified, args.produced)
            => call.rv = RKE_ERROR_FRAGMENT_CORRUPT
       /\ ( /\ args.restored
            /\ OneDataByteChanged(args.before, args.produced)
            /\ Verified = args.produced )
            => call.rv = RKE_SUCCESS
       /\ args.fragment = Verified

\* a verification that succeeds after a changed data byte was put back
C8_Witness ==
    /\ call.op = "verify_checksum"
    /\ args.restored
    /\ OneDataByteChanged(args.before, args.produced)
    /\ args.fragment = args.produced
    /\ args.produced.fragment_size > 0
    /\ call.rv = RKE_SUCCESS


(***************************************************************************)
(* Properties of the stream transform and of encrypt_key.                  *)
(***************************************************************************)
\* C9: crypt_ctr applied twice with the same 16-byte key and nonce gives the
\* buffer back, and after one application byte i (of the length transformed)
\* is buf[i] XOR key[i mod 16] XOR nonce[i mod 16].
C9_Involution ==
    /\ args.applied = "twice" => args.data = args.original
    /\ args.applied = "once" =>
          /\ Len(args.data) = Len(args.original)
          /\ \A i \in 0..(Len(args.original) - 1) :
                args.data[i + 1] =
                    IF i < args.length
                    THEN Xor(Xor(args.original[i + 1], args.key[(i % 16) + 1]),
                             args.nonce[(i % 16) + 1])
                    ELSE args.original[i + 1]

\* a buffer longer than the key, transformed twice, in which the transform
\* had changed bytes
C9_Witness ==
    /\ args.applied = "twice"
    /\ args.length > 16
    /\ args.data = args.original
    /\ crypt_ctr(args.key, args.data, args.length, args.nonce)[17] # args.data[17]

\* the coin a request of encrypt_key names, and its 16-byte secret
RequestDen == ToInt8(ci.body[1])
RequestSn == get_sn(SubSeq(ci.body, 2, 5))
CoinSecret ==
    SubSeq(pages[<< RequestDen, RequestSn \div RECORDS_PER_PAGE >>].data,
           (RequestSn % RECORDS_PER_PAGE) * 17 + 1,
           (RequestSn % RECORDS_PER_PAGE) * 17 + 16)

DecryptReturned(w) ==
    /\ threads[w].pc = "idle"
    /\ threads[w].cmd = "cmd_decrypt_raida_key"
    /\ threads[w].c.command_status = STATUS_SUCCESS

\* the last step was the return of thread w from cmd_decrypt_raida_key
DecryptJustReturned(w) ==
    /\ DecryptReturned(w)
    /\ call.op = "cmd_decrypt_raida_key"
    /\ call.arg = << w >>

\* block i of the request as it was sent, and its key block after the transform
\* with the secret the handler uses
SentBlock(t, i) == BlockAt(t.request, i)
SentDen(t, i) == t.request[21 + i * 26 + 6]
SentSn(t, i) == SubSeq(t.request, 21 + i * 26 + 7, 21 + i * 26 + 10)
Decrypted(t, i) ==
    crypt_ctr(decrypt_raida_key_aen(t.aens, SentBlock(t, i).da), SentBlock(t, i).ky, 16,
              t.c.nonce)

PageOf(t, i) == << SentBlock(t, i).den, SentBlock(t, i).sn \div RECORDS_PER_PAGE >>

\* the conditions under which the block is to be accepted
AcceptConditions(t, i) ==
    /\ SentBlock(t, i).da <= 24
    /\ SentBlock(t, i).split_id \in { 0, 1 }
    /\ PageOf(t, i) \in DOMAIN pages
    /\ Decrypted(t, i)[16] = 255
    /\ Decrypted(t, i)[9] = SentDen(t, i)
    /\ SubSeq(Decrypted(t, i), 10, 13) = SentSn(t, i)

\* the record of the coin of block i: its two halves and its stamp
RecordAt(t, i) ==
    LET sn_idx == SentBlock(t, i).sn % RECORDS_PER_PAGE
    IN  SubSeq(pages[PageOf(t, i)].data, sn_idx * 17 + 1, sn_idx * 17 + 17)

\* C11: when decrypt_raida_key has returned, its last block, if it has
\* da <= 24, split_id 0 or 1, an existing page and a key block that decrypts to
\* the sentinel 0xff with the den and sn that were sent, has output byte 0x01,
\* its half of the record holds decrypted[0..8], the stamp of the record is the
\* one captured at the start of the request, and the page is dirty.
C11_AcceptEffect ==
    \A w \in Workers :
      DecryptJustReturned(w) =>
        LET t == threads[w]
            i == t.total_coins - 1
        IN  AcceptConditions(t, i) =>
              /\ t.c.output[i + 1] = 1
              /\ SubSeq(RecordAt(t, i), SentBlock(t, i).split_id * 8 + 1,
                        SentBlock(t, i).split_id * 8 + 8) = SubSeq(Decrypted(t, i), 1, 8)
              /\ RecordAt(t, i)[17] = t.mfs
              /\ pages[PageOf(t, i)].is_dirty

\* the bytes and the dirty flag of every authenticity page
PageBytes == [k \in DOMAIN pages |-> << pages[k].data, pages[k].is_dirty >>]

\* one of the reasons to reject block i holds
RejectConditions(t, i) ==
    IF SentBlock(t, i).da > 24 THEN TRUE
    ELSE \/ SentBlock(t, i).split_id \notin { 0, 1 }
         \/ PageOf(t, i) \notin DOMAIN pages
         \/ Decrypted(t, i)[16] # 255
         \/ Decrypted(t, i)[9] # SentDen(t, i)
         \/ SubSeq(Decrypted(t, i), 10, 13) # SentSn(t, i)

\* the blocks thread w decides in this step, and whether it accepts none of them
DecidedNow(w) ==
    { i \in 0..(threads'[w].total_coins - 1) :
        /\ i < threads'[w].i
        /\ i >= (IF threads[w].pc = "idle" THEN 0 ELSE threads[w].i) }
OnlyRejectsNow(w) ==
    /\ call'.arg = << w >>
    /\ threads'[w].cmd = "cmd_decrypt_raida_key"
    /\ ~threads'[w].c.output_null
    /\ DecidedNow(w) # {}
    /\ \A i \in DecidedNow(w) : threads'[w].c.output[i + 1] = 0

\* C12: a block that is rejected (da > 24, split_id not 0 or 1, no page, no
\* sentinel 0xff, or a decrypted den or sn other than the block's) has output
\* byte 0x00, and a step of the handler that only rejects blocks changes no byte
\* and no dirty flag of any authenticity page.
C12_RejectLeavesPages ==
    /\ [](\A w \in Workers :
            DecryptReturned(w) =>
              \A i \in 0..(threads[w].total_coins - 1) :
                RejectConditions(threads[w], i) => threads[w].c.output[i + 1] = 0)
    /\ [][\A w \in Workers : OnlyRejectsNow(w) => PageBytes' = PageBytes]_vars

\* a block was rejected after its page had been locked and its key block
\* decrypted: the binding did not match
C12_Witness ==
    \E w \in Workers :
      /\ DecryptJustReturned(w)
      /\ threads[w].request = DecryptBody(100, WrongDenBlock)
      /\ threads[w].c.output = << 0 >>
      /\ \E k \in PageKeys : threads[w].held[k] > 0
      /\ PageBytes = [k \in DOMAIN pages |-> << InitPages[k].data, FALSE >>]

\* the key block of block i after the transform with the secret of peer da
DecryptedAsPeer(t, i) ==
    crypt_ctr(decrypt_raida_key_aen_of_peer(t.aens, SentBlock(t, i).da), SentBlock(t, i).ky,
              16, t.c.nonce)

\* C13: for every da in 0..24, a block of an existing coin with a denomination
\* of at most 0x7f, split_id 0 or 1, whose key block was encrypted under the
\* 16-byte secret of peer da (bytes da*16 .. da*16+15 of the table loaded from
\* the coin file) with the sentinel and the block's den and sn, is accepted.
C13_PeerKeySelection ==
    \A w \in Workers :
      DecryptReturned(w) =>
        \A i \in 0..(threads[w].total_coins - 1) :
          LET t == threads[w] IN
          ( /\ SentBlock(t, i).da <= 24
            /\ SentBlock(t, i).split_id \in { 0, 1 }
            /\ SentDen(t, i) < 128
            /\ PageOf(t, i) \in DOMAIN pages
            /\ DecryptedAsPeer(t, i)[16] = 255
            /\ DecryptedAsPeer(t, i)[9] = SentDen(t, i)
            /\ SubSeq(DecryptedAsPeer(t, i), 10, 13) = SentSn(t, i) )
          => t.c.output[i + 1] = 1

\* thread w has returned from cmd_decrypt_raida_key, and the request had a
\* valid length, a whole number of blocks and a coin file that loads
ParsedAndLoaded(w) ==
    /\ threads[w].pc = "idle"
    /\ threads[w].cmd = "cmd_decrypt_raida_key"
    /\ Len(threads[w].request) >= 49
    /\ (Len(threads[w].request) - 23) % 26 = 0
    /\ load_my_enc_coin(threads[w].request[1], get_sn(SubSeq(threads[w].request, 2, 5)),
                        coin_files).rv = 0

\* the blocks the handler accepts: every check of the loop passes
Accepted(t, i) ==
    /\ SentBlock(t, i).da <= 24
    /\ SentBlock(t, i).split_id \in { 0, 1 }
    /\ PageOf(t, i) \in DOMAIN pages
    /\ Decrypted(t, i)[16] = 255
    /\ ~BindingDiffers(Decrypted(t, i)[9], get_sn(SubSeq(Decrypted(t, i), 10, 13)),
                       SentBlock(t, i).den, SentBlock(t, i).sn)

ResultShape(w) ==
    LET t == threads[w]
        M == (Len(t.request) - 23) \div 26
    IN  /\ t.c.command_status = STATUS_SUCCESS
        /\ t.c.output_size = M
        /\ Len(t.c.output) = M
        /\ \A i \in 0..(M - 1) :
             /\ t.c.output[i + 1] \in { 0, 1 }
             /\ t.c.output[i + 1] = 1 <=> Accepted(t, i)

C15_LocksReleased ==
    \A w \in Workers :
      threads[w].pc = "idle" => \A k \in PageKeys : threads[w].held[k] = 0

\* C16: at the moment a thread in decrypt_raida_key asks for the lock of the
\* page of a block, it holds no page lock, neither from the same block nor
\* from an earlier one.
C16_NoLockHeldAtRequest ==
    \A w \in Workers :
      threads[w].pc \in { "lock1", "lock2" } => \A k \in PageKeys : threads[w].held[k] = 0

\* C17: with page locks that are not reentrant and a fair scheduler, every
\* handler a thread has started returns.
C17_RunsToCompletion ==
    \A w \in Workers :
      ( threads[w].pc # "idle" /\ ~recursive ) ~> ( threads[w].pc = "idle" )

(***************************************************************************)
(* Properties of the handler contract.                                     *)
(***************************************************************************)
\* the command handlers of the server
HandlerNames ==
    { "cmd_rke_generate", "cmd_rke_exchange", "cmd_rke_reconstruct", "cmd_rke_query",
      "cmd_encrypt_key", "cmd_decrypt_raida_key", "cmd_post_key", "cmd_get_key",
      "cmd_key_alert" }

\* C18: a handler that was given a context whose command_status holds the
\* sentinel has assigned command_status when it returns.
C18_StatusAssigned ==
    call.op \in HandlerNames => ci.command_status # STATUS_UNSET

\* the status codes of a request of the wrong shape
ShapeStatus ==
    { ERROR_INVALID_PACKET_LENGTH, ERROR_COINS_NOT_DIV, ERROR_INVALID_KEY_START }

\* the last step ended a handler with an input-shape error; in
\* cmd_rke_generate ERROR_INVALID_PARAMETER is given for T > N, N = 0 and T < 2 only
EndedWithShapeError ==
    /\ call.op \in HandlerNames
    /\ \/ ci.command_status \in ShapeStatus
       \/ call.op = "cmd_rke_generate" /\ ci.command_status = ERROR_INVALID_PARAMETER

\* the files, the fragment buffer and the authenticity pages with their locks
Storage ==
    << frag_files, meta_files, key_files, coin_files, fragment_storage, fragment_count,
       pages >>

HeldLocks == [w \in Workers |-> threads[w].held]

\* C19: a step in which a handler ends with InvalidPacketLength, CoinsNotDiv,
\* InvalidKeyStart or the InvalidParameter of cmd_rke_generate is the whole
\* run of that handler, and it leaves every file, the fragment buffer and its
\* count, every authenticity page and every page lock as they were.
C19_ShapeErrorsTouchNothing ==
    [][ EndedWithShapeError' =>
          /\ Storage' = Storage
          /\ HeldLocks' = HeldLocks
          /\ call'.arg # << >> => threads[call'.arg[1]].pc = "idle" ]_vars

\* a post_key with ks + kl > 127 was refused while a posted key is on disk
C19_Witness ==
    /\ call.op = "cmd_post_key"
    /\ ci.command_status = ERROR_INVALID_KEY_START
    /\ \E p \in KeyPaths : key_files[p].exists /\ Len(key_files[p].bytes) > 5

\* the place of a check or of an I/O call in the order of validation
Rank(e) ==
    IF e = "size" THEN 1 ELSE IF e = "div" THEN 2 ELSE IF e = "range" THEN 3 ELSE 4

\* C20: in the run of a handler the body_size check comes before the
\* divisibility check, that before every field-range check, and every
\* field-range check before any file or page I/O of the request.
C20_ValidationOrder ==
    \A w \in Workers :
      \A i, j \in DOMAIN threads[w].events :
        i < j => Rank(threads[w].events[i]) <= Rank(threads[w].events[j])

(***************************************************************************)
(* Properties of request validation.                                       *)
(***************************************************************************)
\* thread w has returned from cmd_decrypt_raida_key
DecryptEnded(w) ==
    threads[w].pc = "idle" /\ threads[w].cmd = "cmd_decrypt_raida_key"

\* the context holds no output
NoOutput(c) == c.output_null /\ c.output_size = 0

\* C21: a decrypt_raida_key of fewer than 49 bytes ends with
\* InvalidPacketLength, one of 49 bytes or more whose length less 23 is no
\* multiple of 26 ends with CoinsNotDiv, and neither has an output buffer or
\* a changed output_size.
C21_DecryptShape ==
    \A w \in Workers :
      DecryptEnded(w) =>
        LET c == threads[w].c
            n == Len(threads[w].request)
        IN
        /\ n < 49 =>
             c.command_status = ERROR_INVALID_PACKET_LENGTH /\ NoOutput(c)
        /\ n >= 49 /\ (n - 23) % 26 # 0 =>
             c.command_status = ERROR_COINS_NOT_DIV /\ NoOutput(c)

\* a request of 50 bytes has been answered
C21_Witness ==
    \E w \in Workers :
      /\ DecryptEnded(w)
      /\ Len(threads[w].request) >= 49
      /\ (Len(threads[w].request) - 23) % 26 # 0
      /\ call.op = "cmd_decrypt_raida_key"


\* the request was a cmd_rke_generate of 21 bytes and has been answered
GenerateAnswered ==
    /\ args.cmd = "cmd_rke_generate"
    /\ args.done
    /\ Len(args.body) = 21

RequestedTotal == args.body[18]
RequestedThreshold == args.body[19]

\* T < 2, T > N or N = 0
OutsideLimits ==
    \/ RequestedThreshold < 2
    \/ RequestedThreshold > RequestedTotal
    \/ RequestedTotal = 0

GenerateSucceeded ==
    /\ ci.command_status = STATUS_SUCCESS
    /\ ~ci.output_null
    /\ ci.output_size = 1
    /\ ci.output = << 1 >>

\* C22 as stated: a 21-byte rke_generate ends with InvalidParameter when
\* T < 2, T > N or N = 0, and with Success and the output 0x01 for
\* 2 <= T <= N when the store and the random source work.
C22_GenerateLimits ==
    GenerateAnswered =>
      /\ OutsideLimits => ci.command_status = ERROR_INVALID_PARAMETER
      /\ ~OutsideLimits /\ args.fails \notin { "key", "mask", "io" } => GenerateSucceeded

\* C22 with the allocation of the output among the things that work
C22_GenerateLimitsIfAllocated ==
    GenerateAnswered =>
      /\ OutsideLimits =>
           ci.command_status = ERROR_INVALID_PARAMETER /\ NoOutput(ci)
      /\ ~OutsideLimits /\ args.fails = "none" => GenerateSucceeded
      /\ ~OutsideLimits /\ args.fails = "malloc" =>
           ci.command_status = ERROR_MEMORY_ALLOC /\ ci.output_null

\* the largest request, T = N = the limit, has succeeded
C22_Witness ==
    /\ GenerateAnswered
    /\ RequestedTotal = MaxFragments
    /\ RequestedThreshold = MaxFragments
    /\ GenerateSucceeded
    /\ fragment_count = MaxFragments

\* the body length each RKE handler accepts
WrongSize(cmd, n) ==
    IF cmd = "cmd_rke_generate" THEN n # 21
    ELSE IF cmd = "cmd_rke_exchange" THEN n < 19
    ELSE n # 18

\* C23: an RKE request of the wrong body size ends with InvalidPacketLength,
\* a null output and output_size 0; bodies of no byte at all are among them,
\* so no payload byte is read.
C23_RkeBodySize ==
    args.done /\ WrongSize(args.cmd, Len(args.body)) =>
      ci.command_status = ERROR_INVALID_PACKET_LENGTH /\ NoOutput(ci)

\* an 18-byte rke_exchange was refused over a directory that holds the fragment
C23_Witness ==
    /\ args.done
    /\ args.cmd = "cmd_rke_exchange"
    /\ Len(args.body) = 18
    /\ ci.command_status = ERROR_INVALID_PACKET_LENGTH
    /\ rke_fragment_exists(KeyA, 1, frag_files)

(***************************************************************************)
(* Properties of post_key and get_key.                                     *)
(***************************************************************************)
\* the last step was a post_key that succeeded
PostSucceeded == call.op = "cmd_post_key" /\ ci.command_status = STATUS_SUCCESS

\* den, the four sn bytes as sent, and M[ks .. ks+kl) of a post_key body
PostedRecord(body) ==
    << body[33] >> \o SubSeq(body, 34, 37)
    \o SubSeq(SubSeq(body, 38, 165), body[166] + 1, body[166] + body[167])

\* C24: a get_key for K that follows a successful post_key for K, and whose
\* own system calls work, returns Success and exactly the 5 + kl bytes of
\* that post: den, sn, M[ks .. ks+kl).
C24_PostGetRoundTrip ==
    [][ ( /\ PostSucceeded
          /\ call'.op = "cmd_get_key"
          /\ ci'.body_size = 55
          /\ SubSeq(ci'.body, 1, 16) = SubSeq(ci.body, 1, 16)
          /\ ci'.command_status \notin { ERROR_FILESYSTEM, ERROR_MEMORY_ALLOC } )
        => ( /\ ci'.command_status = STATUS_SUCCESS
             /\ ci'.output_size = 5 + ci.body[167]
             /\ ci'.output = PostedRecord(ci.body) ) ]_vars

\* the key file of the key id of a request body
KeyFileOf(body, kf) == kf[KeyPath(SubSeq(body, 1, 16))]

\* C25: a post_key of 185 bytes ends with InvalidKeyStart exactly when
\* ks + kl, as integers, is more than 127, and then no key file is created
\* or changed; when it succeeds, the kl bytes after den and sn in the file
\* are bytes ks .. ks+kl-1 of the 128 bytes of key material.
C25_KeyWindow ==
    [][ call'.op = "cmd_post_key" /\ ci'.body_size = 185 =>
          LET ks == ci'.body[166]
              kl == ci'.body[167]
              material == SubSeq(ci'.body, 38, 165)
          IN
          /\ ci'.command_status = ERROR_INVALID_KEY_START <=> ks + kl > 127
          /\ ks + kl > 127 => key_files' = key_files
          /\ ci'.command_status = STATUS_SUCCESS =>
               /\ ks + kl <= Len(material)
               /\ SubSeq(KeyFileOf(ci'.body, key_files').bytes, 6, 5 + kl)
                    = SubSeq(material, ks + 1, ks + kl) ]_vars

\* a post_key with ks = 200, kl = 100 (44 in eight bits) was refused while a
\* posted key is on disk
C25_Witness ==
    /\ call.op = "cmd_post_key"
    /\ ci.body_size = 185
    /\ ci.body[166] = 200 /\ ci.body[167] = 100
    /\ ci.command_status = ERROR_INVALID_KEY_START
    /\ KeyFileOf(ci.body, key_files).exists

(***************************************************************************)
(* Properties of the fragment store.                                       *)
(***************************************************************************)
\* the last step was a rke_load_metadata; its lookup key and the record read
MetadataLoaded == call.op = "load_metadata"
LookupKey == call.arg[1]
LoadedRecord == call.arg[2]

\* the last step was a successful rke_store_metadata of a record for key B
\* over the file that held the record of another key
StoredOverOtherKey ==
    /\ call.op = "store_metadata"
    /\ call.rv = RKE_SUCCESS
    /\ call.arg[2].exists
    /\ call.arg[2].rec.key_id # call.arg[1].key_id

FragmentCreated ==
    /\ call.op = "store_fragment"
    /\ call.rv = RKE_SUCCESS
    /\ ~call.arg[3].exists

StoredFragment == call.arg[1]
StoredUnder == call.arg[2]

\* C27: a fragment stored for key A is not seen by a lookup for another key B
\* that shares A's first four bytes: right after the store created the file,
\* rke_fragment_exists(B, id) answers 0, rke_load_fragment(B, id) fails,
\* rke_count_fragments(B) does not count it and cmd_rke_exchange for B does
\* not return it.
C27_PrefixCollision ==
    [][ FragmentCreated /\ call'.op \in { "fragment_exists", "load_fragment",
                                           "count_fragments", "cmd_rke_exchange" }
          /\ call'.arg[1] # StoredUnder =>
          /\ (call'.op = "fragment_exists" /\ call'.arg[2] = StoredFragment.fragment_id)
               => call'.rv = 0
          /\ (call'.op = "load_fragment" /\ call'.arg[2] = StoredFragment.fragment_id)
               => call'.rv # RKE_SUCCESS
          /\ call'.op = "count_fragments" =>
               call'.rv = Cardinality({ i \in FragIds \ { StoredFragment.fragment_id } :
                                          rke_fragment_exists(call'.arg[1], i, frag_files) })
          /\ (call'.op = "cmd_rke_exchange" /\ call'.arg[2] = StoredFragment.fragment_id)
               => ci'.command_status # STATUS_SUCCESS ]_vars

\* C29: rke_count_fragments(K) is the number of ids i in 1..255 with
\* rke_fragment_exists(K, i), and rke_fragment_exists(K, 0) is 0 whatever the
\* directory holds.
C29_CountAgreesWithExists ==
    /\ call.op = "count_fragments" =>
         call.rv = Cardinality({ i \in FragIds :
                                   rke_fragment_exists(call.arg[1], i, frag_files) })
    /\ (call.op = "fragment_exists" /\ call.arg[2] = 0) => call.rv = 0
    /\ \A key_id \in KeyIds : ~rke_fragment_exists(key_id, 0, frag_files)

\* a count over a directory that holds the last fragment id and lacks an
\* earlier one
C29_Witness ==
    /\ call.op = "count_fragments"
    /\ call.rv > 0
    /\ rke_fragment_exists(call.arg[1], MaxFragments, frag_files)
    /\ \E i \in FragIds : ~rke_fragment_exists(call.arg[1], i, frag_files)

\* cmd_rke_query has just answered with Success
QuerySucceeded ==
    /\ call.op = "cmd_rke_query"
    /\ ci.command_status = STATUS_SUCCESS
    /\ ~ci.output_null

\* byte k (counted from 0) of the bitmap that follows the metadata record
BitmapByte(k) == ci.output[2 + k]

\* C30: after a successful cmd_rke_query for key id K, for every fragment id i
\* bit (i-1) mod 8 of bitmap byte (i-1) div 8 is set exactly when
\* rke_fragment_exists(K, i) holds, ids above the metadata's total_fragments
\* included.
C30_QueryBitmapExact ==
    QuerySucceeded =>
      \A i \in FragIds :
         BitIsSet(BitmapByte((i - 1) \div 8), (i - 1) % 8)
           <=> rke_fragment_exists(call.arg[1], i, frag_files)

(***************************************************************************)
(* Properties of concurrent executions of the splitter.                    *)
(***************************************************************************)
\* fragments 1..total of fragment_storage are a split of execution p's key:
\* their data XOR to the key, their headers are p's and their checksums verify
SplitOf(p) ==
    LET r == args.runs[p] IN
    /\ XorFragments(Memcpy(Zeros(MaxKeySize), fragment_storage[1].data, r.key_size),
                    fragment_storage, r.key_size, 1, r.meta.total_fragments) = r.key
    /\ \A i \in 1..r.meta.total_fragments :
         /\ fragment_storage[i].fragment_id = i
         /\ fragment_storage[i].total_fragments = r.meta.total_fragments
         /\ rke_verify_checksum(fragment_storage[i]) = RKE_SUCCESS

\* C28: two executions of rke_split_key for different keys, their steps
\* interleaved in any order, do not interfere: when an execution returns
\* RKE_SUCCESS the N fragments it produced XOR to its own key and their
\* checksums verify, and a reconstruct that runs while the other execution
\* splits returns the key of one execution, never a mix of the two.
C28_NoInterference ==
    [][ \A p \in Runs :
          /\ (args.runs[p].pc = "sums" /\ args'.runs[p].pc = "split_done") => SplitOf(p)'
          /\ (args.runs[p].pc = "recon_xor" /\ args'.runs[p].pc = "ended")
               => args'.runs[p].out \in { RunKey(q) : q \in Runs } ]_vars

(***************************************************************************)
(* Properties of a query that follows a generate.                          *)
(***************************************************************************)
\* this step is an 18-byte cmd_rke_query for the key id of the cmd_rke_generate
\* that has just answered with Success
QueryFollowsGenerate ==
    /\ call.op = "cmd_rke_generate"
    /\ ci.command_status = STATUS_SUCCESS
    /\ call'.op = "cmd_rke_query"
    /\ ci'.body_size = 18
    /\ SubSeq(ci'.body, 1, RKE_KEY_ID_SIZE) = SubSeq(ci.body, 1, RKE_KEY_ID_SIZE)

\* the answer carries the metadata of the generate request req
AnswersMetadataOf(c, req) ==
    /\ c.command_status = STATUS_SUCCESS
    /\ ~c.output_null
    /\ c.output_size = SIZEOF_METADATA + FRAGMENT_MAP_SIZE
    /\ c.output[1].key_id = SubSeq(req, 1, RKE_KEY_ID_SIZE)
    /\ c.output[1].key_type = req[RKE_KEY_ID_SIZE + 1]
    /\ c.output[1].total_fragments = req[RKE_KEY_ID_SIZE + 2]
    /\ c.output[1].threshold = req[RKE_KEY_ID_SIZE + 3]
    /\ c.output[1].den = 0
    /\ c.output[1].sn = 0

InitSessionCalled == call.op = "rke_init_session"
SessionGiven == ~call.arg[1] /\ ~call.arg[2].null /\ ~call.arg[3].null

\* the session holds the identities and the time of the call
SessionOfCall ==
    /\ args.session.sender_id = call.arg[2].bytes
    /\ args.session.receiver_id = call.arg[3].bytes
    /\ args.session.state = RKE_SESSION_STATE_INIT
    /\ args.session.timeout = call.arg[5] + 3600

\* a call with a NULL argument returns InvalidParam and writes nothing;
\* rke_cleanup_session zeroes the structure; no call moves a session to
\* Active, Complete or Expired
SessionFrame ==
    /\ call'.op = "rke_init_session" /\ (call'.arg[1] \/ call'.arg[2].null \/ call'.arg[3].null)
         => call'.rv = RKE_ERROR_INVALID_PARAM /\ args'.session = args.session
    /\ call'.op = "rke_cleanup_session" /\ ~call'.arg[1] => args'.session = ZeroSession
    /\ args'.session.state \in { RKE_SESSION_STATE_ACTIVE, RKE_SESSION_STATE_COMPLETE,
                                 RKE_SESSION_STATE_EXPIRED }
         => args'.session.state = args.session.state

\* C32: rke_init_session with non-null arguments yields a session whose
\* sender_id and receiver_id are the arguments, whose state is Init and whose
\* timeout is the time of the call + 3600; with a null argument it returns
\* InvalidParam and writes nothing; rke_cleanup_session zeroes every byte of
\* the session; no operation moves a session to Active, Complete or Expired.
C32_SessionLifecycle ==
    /\ [](InitSessionCalled /\ SessionGiven => call.rv = RKE_SUCCESS /\ SessionOfCall)
    /\ [][SessionFrame]_vars

\* C32 as the code has it: the session is set up when the random source
\* delivers the session id; when it fails the call returns CryptoFail and
\* the identities, the state and the timeout are not written.
C32_SessionLifecycleIfRandom ==
    /\ [](InitSessionCalled /\ SessionGiven =>
            IF call.arg[4] THEN call.rv = RKE_SUCCESS /\ SessionOfCall
            ELSE call.rv = RKE_ERROR_CRYPTO_FAIL)
    /\ [][ /\ SessionFrame
           /\ call'.op = "rke_init_session" /\ call'.rv = RKE_ERROR_CRYPTO_FAIL
                => /\ args'.session.sender_id = args.session.sender_id
                   /\ args'.session.receiver_id = args.session.receiver_id
                   /\ args'.session.state = args.session.state
                   /\ args'.session.timeout = args.session.timeout ]_vars

\* a session set up for two different identities over memory that held
\* something else
C32_Witness ==
    /\ InitSessionCalled
    /\ call.rv = RKE_SUCCESS
    /\ args.session.sender_id = KeyA
    /\ args.session.receiver_id = KeyC
    /\ args.session.state = RKE_SESSION_STATE_INIT
    /\ args.session.timeout = Now + 3601

(***************************************************************************)
(* Properties of the fragment validation.                                  *)
(***************************************************************************)
\* the invariants of a fragment header; MaxKeySize stands for 256
HeaderInvariants(f) ==
    /\ 1 <= f.fragment_id
    /\ f.fragment_id <= f.total_fragments
    /\ f.threshold <= f.total_fragments
    /\ f.fragment_size <= MaxKeySize

\* C33: rke_validate_fragment(F) returns success if and only if
\* 1 <= F.fragment_id <= F.total_fragments, F.threshold <= F.total_fragments
\* and F.fragment_size <= 256; otherwise, and for a null fragment, it returns
\* InvalidParam.
C33_ValidationPredicate ==
    call.op = "rke_validate_fragment" =>
      /\ call.rv = RKE_SUCCESS <=> (~args.null /\ HeaderInvariants(args.fragment))
      /\ call.rv \in { RKE_SUCCESS, RKE_ERROR_INVALID_PARAM }

\* a header refused for its threshold alone
C33_Witness ==
    /\ call.op = "rke_validate_fragment"
    /\ call.rv = RKE_ERROR_INVALID_PARAM
    /\ ~args.null
    /\ args.fragment.fragment_id = 1
    /\ args.fragment.total_fragments = MaxFragments
    /\ args.fragment.threshold = MaxFragments + 1
    /\ args.fragment.fragment_size = MaxKeySize

(***************************************************************************)
(* Properties of the preconditions of rke_split_key and rke_generate_key.  *)
(***************************************************************************)
\* the arguments of the last rke_split_key break a precondition; MaxKeySize
\* stands for 256
SplitArgumentsBad ==
    \/ call.key.null
    \/ call.meta_null
    \/ args.key_size = 0
    \/ args.key_size > MaxKeySize
    \/ args.meta.threshold > args.meta.total_fragments
    \/ args.meta.threshold < 2

GenerateArgumentsBad ==
    call.key.null \/ args.key_size = 0 \/ args.key_size > MaxKeySize

\* every request to the random source during the last split was served
MasksDelivered == \A f \in DOMAIN call.arg[1] : call.arg[1][f].ok

\* C34: rke_split_key returns InvalidParam when the key or the metadata is
\* null, the key size is 0 or above 256, threshold > total_fragments or
\* threshold < 2, and rke_generate_key returns InvalidParam for a null
\* buffer, size 0 or size > 256; for all other arguments the call succeeds
\* unless the random source fails.
C34_Preconditions ==
    /\ call.op = "split" =>
         call.rv = IF SplitArgumentsBad THEN RKE_ERROR_INVALID_PARAM
                   ELSE IF MasksDelivered THEN RKE_SUCCESS
                   ELSE RKE_ERROR_CRYPTO_FAIL
    /\ call.op = "generate_key" =>
         call.rv = IF GenerateArgumentsBad THEN RKE_ERROR_INVALID_PARAM
                   ELSE IF call.arg[1].ok THEN RKE_SUCCESS
                   ELSE RKE_ERROR_CRYPTO_FAIL

\* a split refused for the size of its key alone
C34_Witness ==
    /\ call.op = "split"
    /\ call.rv = RKE_ERROR_INVALID_PARAM
    /\ ~call.key.null
    /\ ~call.meta_null
    /\ args.key_size = MaxKeySize + 1
    /\ args.meta.threshold = RKE_MIN_THRESHOLD
    /\ args.meta.total_fragments = MaxFragments

\* C35: in decrypt_raida_key, for every value 0..255 of the block's den byte,
\* values of 0x80 and above included, a block with da <= 24, split_id 0 or 1,
\* an existing page, decrypted byte 15 = 0xff, decrypted byte 8 equal to the
\* den byte sent and decrypted bytes 9..12 equal to the serial bytes sent is
\* accepted: the comparison is on the 8-bit values as sent.
C35_BindingOnBytes ==
    \A w \in Workers :
      DecryptReturned(w) =>
        \A i \in 0..(threads[w].total_coins - 1) :
          AcceptConditions(threads[w], i) => threads[w].c.output[i + 1] = 1

(***************************************************************************)
(* Properties of storing and loading a fragment.                           *)
(***************************************************************************)
\* this step looks up, under the same key id, the fragment id that the
\* successful rke_store_fragment before it wrote
LooksUpStored(op) ==
    /\ call.op = "store_fragment"
    /\ call.rv = RKE_SUCCESS
    /\ call'.op = op
    /\ call'.arg[1] = call.arg[2]
    /\ call'.arg[2] = call.arg[1].fragment_id

\* the file a rke_load_fragment has read
FileRead == FragmentFile(call.arg[1], call.arg[2], frag_files)

GetKeyCalled == call'.op = "cmd_get_key" /\ ci'.body_size = 55

\* what holds of every 55-byte get_key: at most 512 bytes come back, and no
\* key file that existed changes
GetKeyReadsOnly ==
    /\ ci'.output_size <= 512
    /\ \A p \in KeyPaths : key_files[p].exists => key_files'[p] = key_files[p]

\* the key id of the request has an empty key file after the step
EmptyFileCreated ==
    KeyFileOf(ci'.body, key_files') = [exists |-> TRUE, bytes |-> << >>]

\* C38 as stated: a 55-byte get_key for a key id with no key file ends with
\* Success and output_size 0 and leaves an empty key file for that id; no
\* get_key returns more than 512 bytes or changes an existing key file.
C38_GetKeyNeverPosted ==
    [][ GetKeyCalled
        => ( /\ ( ~KeyFileOf(ci'.body, key_files).exists
                  => ( /\ ci'.command_status = STATUS_SUCCESS
                       /\ ci'.output_size = 0
                       /\ EmptyFileCreated ) )
             /\ GetKeyReadsOnly ) ]_vars

\* C38: a 55-byte get_key for a key id with no key file, whose open(), read()
\* and malloc() work, ends with Success and output_size 0; unless open()
\* fails, an empty key file for that id exists afterwards; a failing open()
\* or read() ends with ERROR_FILESYSTEM and a failing malloc() with
\* ERROR_MEMORY_ALLOC; no get_key returns more than 512 bytes or changes an
\* existing key file.
C38_GetKeyNeverPostedIfCallsWork ==
    [][ GetKeyCalled
        => ( /\ ( ~KeyFileOf(ci'.body, key_files).exists
                  => ( /\ ( ( call'.key.io = "ok" /\ call'.key.malloc_ok )
                            => ( /\ ci'.command_status = STATUS_SUCCESS
                                 /\ ci'.output_size = 0 ) )
                       /\ ( call'.key.io # "ok"
                            => ci'.command_status = ERROR_FILESYSTEM )
                       /\ ( ( call'.key.io = "ok" /\ ~call'.key.malloc_ok )
                            => ci'.command_status = ERROR_MEMORY_ALLOC )
                       /\ ( call'.key.io # "open" => EmptyFileCreated )
                       /\ ( call'.key.io = "open"
                            => ~KeyFileOf(ci'.body, key_files').exists ) ) )
             /\ GetKeyReadsOnly ) ]_vars

\* a get_key has answered Success with no bytes and the key id of the request
\* has an empty key file, while the other key id has a posted key
C38_Witness ==
    /\ call.op = "cmd_get_key"
    /\ call.key.io = "ok"
    /\ call.key.malloc_ok
    /\ ci.body_size = 55
    /\ ci.command_status = STATUS_SUCCESS
    /\ ci.output_size = 0
    /\ KeyFileOf(ci.body, key_files) = [exists |-> TRUE, bytes |-> << >>]
    /\ \E p \in KeyPaths : key_files[p].exists /\ Len(key_files[p].bytes) > 0

(***************************************************************************)
(* What a split that does not succeed leaves behind.                       *)
(***************************************************************************)
\* this step is a reconstruct with a key buffer and a metadata record
ReconstructGiven ==
    call'.op = "reconstruct" /\ ~call'.key.null /\ ~call'.meta_null

\* the last successful split has not been followed by a split that got as far
\* as the random source, and no fault has changed a fragment since
LastSplitStands == produced.valid /\ ~faulty

\* fragment_count is 0 and slot 0 carries the header of a fragment: the last
\* split that passed the argument checks stopped at the random source
FailedSplitStands == fragment_count = 0 /\ fragment_storage[1].fragment_id = 1

\* a split that returns InvalidParam changes neither fragment_storage nor
\* fragment_count, so that a reconstruct with the size and metadata of the last
\* successful split still returns that split's key, directly after the
\* rejected split or later; a split that fails on the random source leaves
\* fragment_count at 0
RejectedSplitFrame ==
    /\ [][ ( call'.op = "split" /\ call'.rv = RKE_ERROR_INVALID_PARAM )
           => ( /\ fragment_storage' = fragment_storage
                /\ fragment_count' = fragment_count ) ]_vars
    /\ [][ ( /\ call.op = "split" /\ call.rv = RKE_ERROR_INVALID_PARAM
             /\ LastSplitStands
             /\ ReconstructGiven
             /\ args.key_size = produced.key_size
             /\ args.meta = produced.meta )
           => ( /\ call'.rv = RKE_SUCCESS
                /\ SubSeq(call'.key.bytes, 1, args.key_size) = produced.key ) ]_vars
    /\ []( ( /\ call.op = "reconstruct" /\ PointersGiven
             /\ LastSplitStands
             /\ args.key_size = produced.key_size
             /\ args.meta = produced.meta )
           => ( /\ call.rv = RKE_SUCCESS
                /\ SubSeq(call.key.bytes, 1, args.key_size) = produced.key ) )
    /\ []( ( call.op = "split" /\ call.rv = RKE_ERROR_CRYPTO_FAIL )
           => FailedSplitStands )

SameHeader(f, g) ==
    /\ f.fragment_id = g.fragment_id
    /\ f.total_fragments = g.total_fragments
    /\ f.threshold = g.threshold
    /\ f.fragment_size = g.fragment_size

\* the last step was a rke_encrypt_fragment with all arguments that returned
\* success, and this step is a rke_decrypt_fragment with the same key and nonce
DecryptFollowsEncrypt ==
    /\ call.op = "rke_encrypt_fragment"
    /\ call.rv = RKE_SUCCESS
    /\ call'.op = "rke_decrypt_fragment"
    /\ call'.arg = call.arg

\* C40: for a valid fragment F with a correct checksum, rke_encrypt_fragment
\* followed by rke_decrypt_fragment with the same key and nonce returns
\* success twice, leaves the header fields as they were at each step and
\* restores data and checksum of F; the fragment passes rke_verify_checksum
\* after the encryption and after the decryption; rke_encrypt_fragment of a
\* fragment that fails rke_validate_fragment returns InvalidParam and leaves
\* the fragment as it was.
C40_EncryptDecryptRoundTrip ==
    /\ [][ ( DecryptFollowsEncrypt
             /\ rke_verify_checksum(args.before) = RKE_SUCCESS )
           => ( /\ call'.rv = RKE_SUCCESS
                /\ SameHeader(args.fragment, args.before)
                /\ rke_verify_checksum(args.fragment) = RKE_SUCCESS
                /\ args'.fragment = args.before
                /\ rke_verify_checksum(args'.fragment) = RKE_SUCCESS ) ]_vars
    /\ [][ ( /\ call'.op = "rke_encrypt_fragment"
             /\ rke_validate_fragment(args.fragment) # RKE_SUCCESS )
           => ( /\ call'.rv = RKE_ERROR_INVALID_PARAM
                /\ args'.fragment = args.fragment ) ]_vars

\* a fragment with a full data array and a correct checksum has been encrypted
\* and then decrypted with the same key and nonce: it is the caller's fragment
\* again, and the encrypted fragment differed from it in every data byte and
\* in the checksum
C40_Witness ==
    /\ args.ops = << "rke_encrypt_fragment", "rke_decrypt_fragment" >>
    /\ call.rv = RKE_SUCCESS
    /\ call.arg[1] = "none"
    /\ args.original.fragment_size = MaxKeySize
    /\ rke_validate_fragment(args.original) = RKE_SUCCESS
    /\ rke_verify_checksum(args.original) = RKE_SUCCESS
    /\ args.before = rke_encrypt_fragment(args.original, FALSE, call.arg[2], FALSE,
                                          call.arg[3], FALSE).fragment
    /\ \A i \in 1..MaxKeySize : args.before.data[i] # args.original.data[i]
    /\ args.before.checksum # args.original.checksum
    /\ args.fragment = args.original
=============================================================================
